---- MODULE Spec2Model ----
(***************************************************************************)
(* Model of the pedal communication core of fform/clock:                   *)
(*   - PedalBridge (lib/pedal/bridge.ts): the single pending request, its  *)
(*     timeout, the retry loop of sendJsonCommand, the sysex listener;     *)
(*   - the importer (lib/pedal/importer.ts): the slot scans with the       *)
(*     consecutive-default stop rule, the warnings list, the store update; *)
(*   - the 'save to device' handlers of the detail components.             *)
(***************************************************************************)
EXTENDS Integers, Sequences, FiniteSets, TLC

(***************************************************************************)
(* Bounds of the model.                                                    *)
(***************************************************************************)
\* the first caller calls sendJsonCommand with retries in 1..MaxRetries
\* (the default of the code is 3), the second with retries in 1..OtherRetries
MaxRetries == 3
OtherRetries == 1
\* encoded chunks per request body
NumChunks == 2

\* messages the pedal has sent that are not yet delivered
MaxInflight == 1
\* connect() calls on the bridge
MaxConnects == 1
\* operations that share the pedal, and the requests each of them sends
MaxOperations == 2
MaxRequests == 2

\* the callers that share one bridge
Callers == {1, 2}
RetriesOf(c) == IF c = 1 THEN 1..MaxRetries ELSE 1..OtherRetries

(***************************************************************************)
(* Program constants.                                                      *)
(***************************************************************************)
NoCode == 0 - 1
NoCall == 0

None == [call |-> NoCall, att |-> 0]
NoChunk == [call |-> NoCall, att |-> 0, chunk |-> 0]

\* the errors the bridge raises
Err(kind) == [kind |-> kind, code |-> NoCode]
ErrNotConnected == Err("Pedal is not connected.")
ErrOutputUnavailable == Err("Pedal output is unavailable.")
ErrSuperseded == Err("Another pedal command is already pending.")
ErrDisconnected == Err("Pedal bridge disconnected.")
ErrTimeout == Err("Pedal response timed out")
\* new Error(`Pedal responded with NACK (${message.code ?? "unknown"})`)
ErrNack_noCode(code) == [kind |-> "Pedal responded with NACK", code |-> NoCode]
ErrNack(code) == [kind |-> "Pedal responded with NACK", code |-> code]
ErrPedal == Err("pedal error reason")
ErrTypeError == Err("TypeError: Cannot read properties of undefined (reading 'timeoutId')")
NoError == Err("")

NackCodes == {3, 0}

\* a decoded message; re is the request the pedal answered with it (not
\* visible to the bridge), None for an unsolicited message
Msg(type, status, code, re) == [type |-> type, status |-> status, code |-> code, re |-> re]
NoPayload == Msg("", "", NoCode, None)

VARIABLES
  output,            \* PedalBridge.output is defined
  input,             \* PedalBridge.input is defined
  listener,          \* PedalBridge.listener is attached to the input
  pending,           \* PedalBridge.pending: the attempt that owns it, or None
  timers,            \* armed setTimeout timers of sendOnce, by attempt
  firmwareVersions,  \* PedalBridge.firmwareVersions
  calls,             \* per caller: the sendJsonCommand invocation
  outcome,           \* per caller: how its most recent attempt ended
  writers,           \* running sendChunks loops: [call, att, next]
  wire,              \* chunks written to the output: all of them, and the last one
  outstanding,       \* the request the pedal received last, while unanswered
  inflight,          \* messages sent by the pedal, not yet delivered
  cancelled,         \* callers that were awaiting when disconnect() ran
  connects,          \* number of connect() calls so far
  heard              \* type of the message handled last while the request
                     \* that is pending now was pending, "" if none

bridgeVars == <<output, input, listener, pending, timers, firmwareVersions,
                calls, outcome, writers, wire, outstanding, inflight,
                cancelled, connects, heard>>

VARIABLES
  scan,              \* the running import: its options, loop counters and locals
  songs,             \* the songs array of the import
  setlists,          \* the setlists array of the import
  macros,            \* the macros array of the import
  warnings,          \* the warnings array of the import
  store,             \* useClockStore state: projectName, songs, setlists, macros
  pedal,             \* how the pedal answers: focus, tail, free, link
  queried,           \* the slot queries issued so far, as <<stage, index>>
  failed,            \* the queries that rejected so far
  exported           \* the export call made by 'save to device'

scanVars == <<scan, songs, setlists, macros, warnings, store, pedal, queried,
              failed, exported>>

VARIABLES
  exporter,          \* the running export: its record, loop counter and the commands sent
  compressor,        \* a macro and a catalog of partials going through replaceWithPartials
  codec,             \* a payload going through buildPayloadChunks and decodePedalMessage
  bridges            \* per operation: the PedalBridge it made with ensurePedalBridge

toolVars == <<exporter, compressor, codec, bridges>>

vars == <<bridgeVars, scanVars, toolVars>>

\* no export, no compression, no packet at work
Idle == [stage |-> "off"]

\* the import and save operations that may run at the same time
Operations == 1..MaxOperations

\* an operation that has not made its bridge yet
NoBridge == [kind |-> "", pc |-> "idle", listener |-> FALSE, ports |-> FALSE,
             pending |-> None, asked |-> 0, settledBy |-> None, failed |-> FALSE]
NoBridges == [op \in Operations |-> NoBridge]

IdleCall == [pc |-> "idle", retries |-> 0, attempt |-> 0, attempts |-> 0,
             lastError |-> NoError, error |-> NoError, response |-> NoPayload]

(***************************************************************************)
(* sendJsonCommand: the retry loop.                                        *)
(***************************************************************************)
\* bridge.ts sendJsonCommand: if (attempt < retries - 1) await delay(...)
\* followed by the loop condition attempt < retries
ShouldRetry_offByOne(attempt, retries) == attempt < retries
ShouldRetry(attempt, retries) == attempt < retries - 1

\* the catch block of sendJsonCommand and the throw after the loop, for the
\* caller c whose current attempt failed with error e
FailAttempt(cs, c, e) ==
  [cs EXCEPT ![c] =
     IF ShouldRetry(cs[c].attempt, cs[c].retries)
     THEN [@ EXCEPT !.pc = "delay", !.lastError = e]
     ELSE [@ EXCEPT !.pc = "rejected", !.lastError = e, !.error = e]]

\* the code after `await this.sendOnce(...)` for the caller c whose attempt
\* resolved with payload p: a status "error" payload is thrown, else returned
ResolveAttempt(cs, c, p) ==
  IF p.status = "error"
  THEN FailAttempt(cs, c, ErrPedal)
  ELSE [cs EXCEPT ![c] = [@ EXCEPT !.pc = "resolved", !.response = p]]

LogAttempt(log, c, e) == [log EXCEPT ![c] = e]

Req(c) == [call |-> c, att |-> calls[c].attempt]

(***************************************************************************)
(* PedalBridge.sendOnce, run by caller c for its current attempt, up to    *)
(* the returned promise: the output check, the rejection of a request that *)
(* is still pending, then the new pending request, its timer and the first *)
(* chunk (sendChunks runs synchronously up to its first delay).            *)
(***************************************************************************)
\* this.output.sendSysex(manufacturer, data): the chunk goes on the wire;
\* the wire keeps which chunks were written and which one was written last
WriteToOutput(w, chunk) == [last |-> chunk, chunks |-> w.chunks \cup {chunk}]

\* the request is complete at the pedal once its last chunk is written
Complete(chunk) == chunk = NumChunks - 1

SendOnce(c, cs0) ==
  LET cs == [cs0 EXCEPT ![c].attempts = @ + 1]
      r == [call |-> c, att |-> cs[c].attempt] IN
  IF ~output
  THEN /\ calls' = FailAttempt(cs, c, ErrOutputUnavailable)
       /\ outcome' = LogAttempt(outcome, c, ErrOutputUnavailable)
       /\ UNCHANGED <<pending, timers, writers, wire, outstanding>>
  ELSE IF pending # None
  THEN \* this.pending.reject(...) clears this.pending, so the following
       \* clearTimeout(this.pending.timeoutId) throws a TypeError
       /\ calls' = FailAttempt(FailAttempt(cs, pending.call, ErrSuperseded), c, ErrTypeError)
       /\ outcome' = LogAttempt(LogAttempt(outcome, pending.call, ErrSuperseded), c, ErrTypeError)
       /\ timers' = timers \ {pending}
       /\ pending' = None
       /\ UNCHANGED <<writers, wire, outstanding>>
  ELSE /\ calls' = [cs EXCEPT ![c].pc = "awaiting"]
       /\ pending' = r
       /\ timers' = timers \cup {r}
       /\ wire' = WriteToOutput(wire, [call |-> c, att |-> r.att, chunk |-> 0])
       /\ writers' = IF NumChunks > 1
                     THEN writers \cup {[call |-> c, att |-> r.att, next |-> 1]}
                     ELSE writers
       /\ outstanding' = IF Complete(0) THEN {r} ELSE outstanding
       /\ UNCHANGED outcome

\* sendJsonCommand(body, {retries}): the connection check and the first attempt
SendJsonCommand(c, retries) ==
  /\ calls[c].pc = "idle"
  /\ IF ~output \/ ~input
     THEN /\ calls' = [calls EXCEPT ![c] = [@ EXCEPT !.pc = "rejected", !.retries = retries,
                                                     !.error = ErrNotConnected]]
          /\ UNCHANGED <<pending, timers, writers, wire, outstanding, outcome>>
     ELSE SendOnce(c, [calls EXCEPT ![c] = [@ EXCEPT !.retries = retries, !.attempt = 0]])
  /\ heard' = ""
  /\ UNCHANGED <<output, input, listener, firmwareVersions, inflight, cancelled, connects>>

\* the retry delay of caller c expires: the next iteration of the loop
RetryAttempt(c) ==
  /\ calls[c].pc = "delay"
  /\ SendOnce(c, [calls EXCEPT ![c].attempt = @ + 1])
  /\ heard' = ""
  /\ UNCHANGED <<output, input, listener, firmwareVersions, inflight, cancelled, connects>>

\* sendChunks: one more chunk after the inter-chunk delay;
\* this.output?.sendSysex writes nothing once the output is cleared
WriteChunk(w) ==
  /\ w \in writers
  /\ writers' = (writers \ {w}) \cup
                  (IF w.next + 1 < NumChunks THEN {[w EXCEPT !.next = @ + 1]} ELSE {})
  /\ IF output
     THEN /\ wire' = WriteToOutput(wire, [call |-> w.call, att |-> w.att, chunk |-> w.next])
          /\ outstanding' = IF Complete(w.next)
                            THEN {[call |-> w.call, att |-> w.att]}
                            ELSE outstanding
     ELSE UNCHANGED <<wire, outstanding>>
  /\ UNCHANGED <<output, input, listener, pending, timers, firmwareVersions,
                 calls, outcome, inflight, cancelled, connects, heard>>

\* the setTimeout callback of sendOnce for attempt t
Timeout_noReject(t) ==
  /\ t \in timers
  /\ timers' = timers \ {t}
  /\ UNCHANGED <<calls, outcome, pending>>
  /\ UNCHANGED <<output, input, listener, firmwareVersions, writers, wire,
                 outstanding, inflight, cancelled, connects>>
  /\ heard' = ""
Timeout(t) ==
  /\ t \in timers
  /\ IF pending # None
     THEN /\ calls' = FailAttempt(calls, pending.call, ErrTimeout)
          /\ outcome' = LogAttempt(outcome, pending.call, ErrTimeout)
          /\ timers' = (timers \ {t}) \ {pending}
          /\ pending' = None
     ELSE /\ timers' = timers \ {t}
          /\ UNCHANGED <<calls, outcome, pending>>
  /\ UNCHANGED <<output, input, listener, firmwareVersions, writers, wire,
                 outstanding, inflight, cancelled, connects>>
  /\ heard' = ""

(***************************************************************************)
(* connect / disconnect                                                    *)
(***************************************************************************)
\* connect(): selects the ports and attaches the listener
Connect ==
  /\ ~output \/ ~input \/ ~listener
  /\ connects < MaxConnects
  /\ connects' = connects + 1
  /\ output' = TRUE
  /\ input' = TRUE
  /\ listener' = TRUE
  /\ UNCHANGED <<pending, timers, firmwareVersions, calls, outcome, writers,
                 wire, outstanding, inflight, cancelled, heard>>

\* disconnect(): detaches the listener, clears the ports, rejects the
\* pending request
Disconnect ==
  /\ output \/ input \/ listener \/ pending # None
  /\ listener' = FALSE
  /\ output' = FALSE
  /\ input' = FALSE
  /\ IF pending # None
     THEN /\ calls' = FailAttempt(calls, pending.call, ErrDisconnected)
          /\ outcome' = LogAttempt(outcome, pending.call, ErrDisconnected)
          /\ timers' = timers \ {pending}
          /\ cancelled' = cancelled \cup {pending.call}
     ELSE UNCHANGED <<calls, outcome, timers, cancelled>>
  /\ pending' = None
  /\ heard' = ""
  /\ UNCHANGED <<firmwareVersions, writers, wire, outstanding, inflight, connects>>

(***************************************************************************)
(* The listener: handleDecodedMessage                                      *)
(***************************************************************************)
MessageTypes == {"ack", "nack", "json", "printf", "firmware", "raw"}

\* if (message.type === "json") this.pending?.resolve(message.payload)
ResolvesPending_ack(type) == type \in {"json", "ack"}
ResolvesPending(type) == type = "json"

\* if (message.type === "nack") this.pending?.reject(...)
RejectsPending_printf(type) == type \in {"nack", "printf"}
RejectsPending(type) == type = "nack"

HandleDecodedMessage(m) ==
  /\ firmwareVersions' = IF m.type = "firmware"
                         THEN [firmwareVersions EXCEPT ![m.status] = m.code]
                         ELSE firmwareVersions
  /\ IF m.type # "firmware" /\ ResolvesPending(m.type) /\ pending # None
     THEN /\ calls' = ResolveAttempt(calls, pending.call, m)
          /\ outcome' = LogAttempt(outcome, pending.call,
                                      IF m.status = "error" THEN ErrPedal ELSE NoError)
          /\ timers' = timers \ {pending}
          /\ pending' = None
     ELSE IF m.type # "firmware" /\ ~ResolvesPending(m.type) /\ RejectsPending(m.type)
             /\ pending # None
     THEN /\ calls' = FailAttempt(calls, pending.call, ErrNack(m.code))
          /\ outcome' = LogAttempt(outcome, pending.call, ErrNack(m.code))
          /\ timers' = timers \ {pending}
          /\ pending' = None
     ELSE UNCHANGED <<calls, outcome, timers, pending>>

\* the sysex listener receives a message the pedal sent
Deliver(m) ==
  /\ m \in inflight
  /\ listener
  /\ inflight' = inflight \ {m}
  /\ HandleDecodedMessage(m)
  /\ heard' = IF pending # None /\ pending' = pending THEN m.type ELSE ""
  /\ UNCHANGED <<output, input, listener, writers, wire, outstanding, cancelled, connects>>

\* a message that arrives while no listener is attached is lost
DropMessage(m) ==
  /\ m \in inflight
  /\ ~listener
  /\ inflight' = inflight \ {m}
  /\ UNCHANGED <<output, input, listener, pending, timers, firmwareVersions, calls,
                 outcome, writers, wire, outstanding, cancelled, connects, heard>>

(***************************************************************************)
(* The pedal                                                               *)
(***************************************************************************)
Responses(r) ==
  {Msg("json", st, NoCode, r) : st \in {"success", "error"}}
    \cup {Msg("nack", "", code, r) : code \in NackCodes}

Unsolicited ==
  {Msg(t, "", NoCode, None) : t \in {"ack", "printf"}}
    \cup {Msg("firmware", "micro", 1, None)}

\* the pedal answers a request it received
PedalRespond(r, m) ==
  /\ r \in outstanding
  /\ m \in Responses(r)
  /\ Cardinality(inflight) < MaxInflight
  /\ outstanding' = outstanding \ {r}
  /\ inflight' = inflight \cup {m}
  /\ UNCHANGED <<output, input, listener, pending, timers, firmwareVersions, calls,
                 outcome, writers, wire, cancelled, connects, heard>>

\* the pedal sends an acknowledgement, a printf line or a firmware announcement
PedalSend(m) ==
  /\ m \in Unsolicited
  /\ m \notin inflight
  /\ Cardinality(inflight) < MaxInflight
  /\ inflight' = inflight \cup {m}
  /\ UNCHANGED <<output, input, listener, pending, timers, firmwareVersions, calls,
                 outcome, writers, wire, outstanding, cancelled, connects, heard>>

(***************************************************************************)
(* The bridge shared by the callers                                        *)
(***************************************************************************)
Init ==
  /\ output = FALSE
  /\ input = FALSE
  /\ listener = FALSE
  /\ pending = None
  /\ timers = {}
  /\ firmwareVersions = [micro |-> 0, dsp |-> 0]
  /\ calls = [c \in Callers |-> IdleCall]
  /\ outcome = [c \in Callers |-> NoError]
  /\ writers = {}
  /\ wire = [last |-> NoChunk, chunks |-> {}]
  /\ outstanding = {}
  /\ inflight = {}
  /\ cancelled = {}
  /\ connects = 0
  /\ heard = ""
  /\ scan = [stage |-> "off"]
  /\ songs = <<>>
  /\ setlists = <<>>
  /\ macros = <<>>
  /\ warnings = <<>>
  /\ store = [projectName |-> ""]
  /\ pedal = [link |-> TRUE]
  /\ queried = {}
  /\ failed = {}
  /\ exported = <<>>
  /\ exporter = Idle /\ compressor = Idle /\ codec = Idle /\ bridges = NoBridges

BridgeNext ==
  \/ Connect
  \/ Disconnect
  \/ \E c \in Callers : \E r \in RetriesOf(c) : SendJsonCommand(c, r)
  \/ \E c \in Callers : RetryAttempt(c)
  \/ \E w \in writers : WriteChunk(w)
  \/ \E t \in timers : Timeout(t)
  \/ \E m \in inflight : Deliver(m)
  \/ \E m \in inflight : DropMessage(m)
  \/ \E r \in outstanding : \E m \in Responses(r) : PedalRespond(r, m)
  \/ \E m \in Unsolicited : PedalSend(m)

Next == BridgeNext /\ UNCHANGED <<scanVars, toolVars>>

Spec == Init /\ [][Next]_vars

\* the timers of the program fire: the timeout of a pending attempt
\* (setTimeout in sendOnce) and the retry delay (delay(RETRY_DELAY_MS))
TimersFire ==
  /\ WF_vars(\E t \in timers : Timeout(t) /\ UNCHANGED <<scanVars, toolVars>>)
  /\ \A c \in Callers : WF_vars(RetryAttempt(c) /\ UNCHANGED <<scanVars, toolVars>>)

SpecTimers == Init /\ [][Next]_vars /\ TimersFire

(***************************************************************************)
(* The importer: constants, ids, names and the default classification      *)
(***************************************************************************)
SONG_SLOT_COUNT == 128
SETLIST_SLOT_COUNT == 10
MACRO_SLOT_COUNT == 128
SETLIST_SECTION_COUNT == 4
GLOBAL_KEY_COUNT == 19
JACK_PARAM_KEY_COUNT == 18
JACK_COUNT == 4
DISPLAY_KEY_COUNT == 3
DEFAULT_SONG_BPM == 80
SONG_DEFAULT_STOP == 5
MACRO_DEFAULT_STOP == 5
SETLIST_DEFAULT_STOP == 3

\* the first FreeAnswers queries of the focus stage are answered freely by
\* the pedal, all other queries as the tail says
FreeAnswers == 2
\* a macro map lists at most MaxActiveSlots active slots
MaxActiveSlots == 1
\* 'save to device' is used on one of the first MaxSavePos records of a list
MaxSavePos == 2

\* index.toString(): the decimal digits of n
RECURSIVE Digits(_)
Digits(n) == IF n < 10 THEN <<n>> ELSE Digits(n \div 10) \o <<n % 10>>

\* .padStart(len, "0")
RECURSIVE PadStart(_, _)
PadStart(digits, len) == IF Len(digits) >= len THEN digits ELSE PadStart(<<0>> \o digits, len)

\* parseInt(text, 10) of a digit string; NaN is modelled as -1
RECURSIVE ParseInt(_)
ParseInt(digits) ==
  IF Len(digits) = 0 THEN 0 - 1
  ELSE IF Len(digits) = 1 THEN digits[1]
  ELSE 10 * ParseInt(SubSeq(digits, 1, Len(digits) - 1)) + digits[Len(digits)]

\* `song-${index.toString().padStart(3, "0")}` and its siblings
SongId(index) == [prefix |-> "song-", digits |-> PadStart(Digits(index), 3)]
MacroId(index) == [prefix |-> "macro-", digits |-> PadStart(Digits(index), 3)]
SetlistId(index) == [prefix |-> "setlist-", digits |-> PadStart(Digits(index), 2)]

\* a name: the text and, for the synthesized "Song 4", its number
Name(text, n) == [text |-> text, n |-> n]
EmptyName == Name("", 0)
CustomName == Name("My tune", 0)
defaultSongName(index) == Name("Song ", index + 1)
defaultSetlistName(index) == Name("Setlist ", index + 1)
defaultMacroName(index) == Name("Macro ", index + 1)

\* an answer of sendJsonCommand: res is "ok" (resolved with the payload) or
\* "reject" (the call rejected after its retries)
Answer(res, status, name, bpm, macro, n, type, ver) ==
  [res |-> res, status |-> status, name |-> name, bpm |-> bpm, macro |-> macro,
   n |-> n, type |-> type, ver |-> ver]
Reject == Answer("reject", "", EmptyName, 0, 0 - 1, 0, "", <<>>)
NoStatus == Answer("ok", "other", EmptyName, 0, 0 - 1, 0, "", <<>>)
Success(name, bpm, macro, n, type, ver) == Answer("ok", "success", name, bpm, macro, n, type, ver)

\* isHttpSuccess(response) && response.status === "success"
IsSuccess(a) == a.res = "ok" /\ a.status = "success"

\* mapSongResponse
mapSongResponse(response, index) ==
  [id |-> SongId(index),
   title |-> IF response.name # EmptyName THEN response.name ELSE defaultSongName(index),
   tempo |-> IF response.bpm > 0 THEN response.bpm ELSE DEFAULT_SONG_BPM,
   macros |-> IF response.macro >= 0 THEN <<MacroId(response.macro)>> ELSE <<>>]

\* mapSetlistResponse
mapSetlistResponse(response, index, songIds) ==
  [id |-> SetlistId(index),
   name |-> IF response.name # EmptyName THEN response.name ELSE defaultSetlistName(index),
   entries |-> [k \in 1..Len(songIds) |-> SongId(songIds[k])]]

\* mapMacroResponse
mapMacroResponse(response, index, steps) ==
  [id |-> MacroId(index),
   name |-> IF response.name # EmptyName THEN response.name ELSE defaultMacroName(index),
   steps |-> steps]

\* isSongUsed
isSongUsed(song) ==
  \/ song.title # defaultSongName(ParseInt(song.id.digits))
  \/ Len(song.macros) > 0
  \/ song.tempo # DEFAULT_SONG_BPM

\* setlist.entries.length === 0 && isDefaultSetlistName(setlist.name, index)
isDefaultSetlist(setlist, index) ==
  Len(setlist.entries) = 0 /\ setlist.name = defaultSetlistName(index)

\* macro.steps.length === 0 && isDefaultMacroName(macro.name, index)
isDefaultMacro(macro, index) ==
  Len(macro.steps) = 0 /\ macro.name = defaultMacroName(index)

\* isVersionAtLeast(firmwareVersion, "1.0.2"), on the numeric fields
RECURSIVE VersionAtLeast(_, _)
VersionAtLeast(current, target) ==
  IF Len(current) = 0 /\ Len(target) = 0 THEN TRUE
  ELSE LET c == IF Len(current) > 0 THEN Head(current) ELSE 0
           t == IF Len(target) > 0 THEN Head(target) ELSE 0
       IN IF c > t THEN TRUE
          ELSE IF c < t THEN FALSE
          ELSE VersionAtLeast(IF Len(current) > 0 THEN Tail(current) ELSE <<>>,
                              IF Len(target) > 0 THEN Tail(target) ELSE <<>>)

\* firmwareVersion && isVersionAtLeast(firmwareVersion, "1.0.2")
UsesSections(firmwareVersion) ==
  Len(firmwareVersion) > 0 /\ VersionAtLeast(firmwareVersion, <<1, 0, 2>>)

(***************************************************************************)
(* The importer: the pedal's answers                                       *)
(***************************************************************************)
Ops == {"project", "songs", "setlists", "macros", "settings"}

\* the awaited stages of each import function, in order
Stages(op) ==
  CASE op = "project" -> <<"firmware", "global", "jacks", "display", "songs",
                           "setlists", "macros", "finalize">>
    [] op = "songs" -> <<"songs", "finalize">>
    [] op = "setlists" -> <<"firmware", "setlists", "finalize">>
    [] op = "macros" -> <<"macros", "finalize">>
    [] op = "settings" -> <<"global", "jacks", "display", "finalize">>

NextStage(op, stage) ==
  LET st == Stages(op)
      k == CHOOSE i \in 1..Len(st) : st[i] = stage
  IN st[k + 1]

Tails == {"default", "used", "reject"}

\* what the pedal may answer to query q of slot index while it answers freely
FreeSet(q, index) ==
  {Reject, NoStatus} \cup
  CASE q = "firmware" -> {Success(EmptyName, 0, 0 - 1, 0, "", v) : v \in {<<1, 0, 1>>, <<1, 0, 2>>}}
    [] q = "song" -> {Success(EmptyName, 0, 0 - 1, 0, "", <<>>),
                      Success(defaultSongName(index), DEFAULT_SONG_BPM, 0 - 1, 0, "", <<>>),
                      Success(CustomName, DEFAULT_SONG_BPM, 0 - 1, 0, "", <<>>),
                      Success(defaultSongName(index), 120, 0 - 1, 0, "", <<>>)}
    [] q = "setlistName" -> {Success(defaultSetlistName(index), 0, 0 - 1, 0, "", <<>>),
                             Success(CustomName, 0, 0 - 1, 0, "", <<>>)}
    [] q = "setlistSongs" -> {Success(EmptyName, 0, 0 - 1, n, "", <<>>) : n \in 0..1}
    [] q = "macroName" -> {Success(defaultMacroName(index), 0, 0 - 1, 0, "", <<>>),
                           Success(CustomName, 0, 0 - 1, 0, "", <<>>)}
    [] q = "macroMap" -> {Success(EmptyName, 0, 0 - 1, n, "", <<>>) : n \in 0..MaxActiveSlots}
    [] q = "macroStep" -> {Success(EmptyName, 0, 0 - 1, 0, t, <<>>) : t \in {"CC", "-"}}
    [] OTHER -> {Success(EmptyName, 0, 0 - 1, 0, "", <<>>)}

\* what the pedal answers outside the free window; a pedal that rejects once
\* the window is used up has lost its link: it rejects every later query
TailAnswer(q, index, tail) ==
  IF tail = "reject" THEN Reject
  ELSE CASE q = "firmware" -> Success(EmptyName, 0, 0 - 1, 0, "", <<1, 0, 2>>)
         [] q = "song" -> Success(IF tail = "used" THEN CustomName ELSE defaultSongName(index),
                                  DEFAULT_SONG_BPM, 0 - 1, 0, "", <<>>)
         [] q = "setlistName" -> Success(IF tail = "used" THEN CustomName
                                         ELSE defaultSetlistName(index), 0, 0 - 1, 0, "", <<>>)
         [] q = "macroName" -> Success(IF tail = "used" THEN CustomName
                                       ELSE defaultMacroName(index), 0, 0 - 1, 0, "", <<>>)
         [] OTHER -> Success(EmptyName, 0, 0 - 1, 0, "", <<>>)

\* the outcomes of `await bridge.sendJsonCommand(...)` for query q: the call
\* throws when the bridge has no ports, rejects when the pedal is unreachable
Answers(q, index) ==
  IF ~output \/ ~input THEN {Reject}
  ELSE IF ~pedal.link THEN {Reject}
  ELSE IF scan.stage = pedal.focus /\ pedal.free > 0 THEN FreeSet(q, index)
  ELSE {TailAnswer(q, index, pedal.tail)}

Rejected(a) == a.res # "ok"

\* the awaited query <<stage, index, sub>> settles with a: the bridge has
\* cleared its pending request, the import goes on after the await
Asked_keepPending(a, index, sub) ==
  /\ calls[1].pc = "awaiting"
  /\ calls' = [calls EXCEPT ![1] = [@ EXCEPT !.pc = IF a.res # "ok" THEN "rejected"
                                                     ELSE "resolved"]]
  /\ UNCHANGED <<pending, outstanding>>
  /\ pedal' = [pedal EXCEPT !.free = IF scan.stage = pedal.focus /\ @ > 0 THEN @ - 1 ELSE @,
                            !.link = @ /\ ~(pedal.tail = "reject" /\ pedal.free = 0)]
  /\ queried' = queried \cup {<<scan.stage, index>>}
  /\ failed' = IF a.res # "ok" THEN failed \cup {<<scan.stage, index, sub>>} ELSE failed
Asked(a, index, sub) ==
  /\ calls[1].pc = "awaiting"
  /\ calls' = [calls EXCEPT ![1] = [@ EXCEPT !.pc = IF Rejected(a) THEN "rejected"
                                                     ELSE "resolved"]]
  /\ pending' = None
  /\ outstanding' = {}
  /\ pedal' = [pedal EXCEPT !.free = IF scan.stage = pedal.focus /\ @ > 0 THEN @ - 1 ELSE @,
                            !.link = @ /\ ~(pedal.tail = "reject" /\ pedal.free = 0)]
  /\ queried' = queried \cup {<<scan.stage, index>>}
  /\ failed' = IF Rejected(a) THEN failed \cup {<<scan.stage, index, sub>>} ELSE failed

Warn(w, index, sub) == Append(w, <<scan.stage, index, sub>>)

\* the default-run rule applied to a mapped record:
\* keep it or not, the new run length, and whether the loop breaks
SlotVerdict_noReset(isDefault, importAll, run, stop) ==
  IF ~isDefault THEN [keep |-> TRUE, run |-> run, break |-> FALSE]
  ELSE IF ~importAll THEN [keep |-> FALSE, run |-> run + 1, break |-> run + 1 >= stop]
  ELSE [keep |-> TRUE, run |-> run, break |-> FALSE]
SlotVerdict_dropDefaults(isDefault, importAll, run, stop) ==
  IF ~isDefault THEN [keep |-> TRUE, run |-> 0, break |-> FALSE]
  ELSE IF ~importAll THEN [keep |-> FALSE, run |-> run + 1, break |-> run + 1 >= stop]
  ELSE [keep |-> FALSE, run |-> run, break |-> FALSE]
SlotVerdict(isDefault, importAll, run, stop) ==
  IF ~isDefault THEN [keep |-> TRUE, run |-> 0, break |-> FALSE]
  ELSE IF ~importAll THEN [keep |-> FALSE, run |-> run + 1, break |-> run + 1 >= stop]
  ELSE [keep |-> TRUE, run |-> run, break |-> FALSE]

Capacity(stage) ==
  CASE stage = "songs" -> SONG_SLOT_COUNT
    [] stage = "setlists" -> SETLIST_SLOT_COUNT
    [] stage = "macros" -> MACRO_SLOT_COUNT
    [] stage = "global" -> GLOBAL_KEY_COUNT
    [] stage = "jacks" -> JACK_COUNT
    [] stage = "display" -> DISPLAY_KEY_COUNT
    [] OTHER -> 1

\* the loop of the current stage goes on with slot index + 1, or ends
\* (index + 1 reaches the capacity, or the loop breaks)
\* class records how a song, setlist or macro slot ended: "used", "default",
\* "noname" (the name or details query rejected or was not a success), "nomap"
LoopOn(sc, run, break, class) ==
  LET seen == IF class = "key" THEN sc.history
              ELSE [sc.history EXCEPT ![sc.stage] = Append(@, <<sc.stage, sc.index, class>>)]
  IN
  IF break \/ sc.index + 1 >= Capacity(sc.stage)
  THEN [sc EXCEPT !.stage = NextStage(sc.op, sc.stage), !.index = 0, !.sub = 0, !.run = 0,
                  !.history = seen,
                  !.stopped = IF break THEN @ \cup {<<sc.stage, sc.index>>} ELSE @]
  ELSE [sc EXCEPT !.index = @ + 1, !.sub = 0, !.run = run, !.history = seen]

(***************************************************************************)
(* The importer: one action per awaited query                              *)
(***************************************************************************)
bridgeRest == <<pending, timers, firmwareVersions, calls, outcome, writers, wire,
                outstanding, inflight, cancelled, connects, heard>>
ports == <<output, input, listener>>
\* the bridge variables a query of the import leaves alone
bridgeQuiet == <<timers, firmwareVersions, outcome, writers, wire, inflight, cancelled,
                 connects, heard>>

\* the stages whose loops query the pedal
QueryStages == {"firmware", "global", "display", "jacks", "songs", "setlists", "macros"}

\* `await bridge.sendJsonCommand(...)` up to the await: the query of the
\* current stage, slot and step goes out and the import waits for it; a
\* request that is still pending is rejected by sendOnce
ScanSend ==
  /\ scan.stage \in QueryStages
  /\ calls[1].pc # "awaiting"
  /\ calls' = [calls EXCEPT ![1] = [@ EXCEPT !.pc = "awaiting"]]
  /\ IF output /\ input
     THEN /\ pending' = [call |-> 1, att |-> 1]
          /\ outstanding' = {<<scan.stage, scan.index, scan.sub>>}
     ELSE UNCHANGED <<pending, outstanding>>
  /\ UNCHANGED <<toolVars, ports, bridgeQuiet, scanVars>>

\* const bridge = await ensurePedalBridge(): a new bridge, connected, or an
\* error thrown out of the import when no port is found
ScanConnect(found) ==
  /\ scan.stage = "connect"
  /\ IF found
     THEN /\ output' = TRUE /\ input' = TRUE /\ listener' = TRUE
          /\ scan' = [scan EXCEPT !.stage = Stages(scan.op)[1]]
     ELSE /\ UNCHANGED ports
          /\ scan' = [scan EXCEPT !.stage = "done", !.result = "error"]
  /\ UNCHANGED <<toolVars, bridgeRest, songs, setlists, macros, warnings, store, pedal, queried,
                 failed, exported>>

\* requestFirmwareVersion(bridge).catch(...): the project import records a
\* warning, the setlist import does not
ScanFirmware ==
  /\ scan.stage = "firmware"
  /\ \E a \in Answers("firmware", 0) :
       /\ Asked(a, 0, 0)
       /\ scan' = [scan EXCEPT !.stage = NextStage(scan.op, "firmware"),
                               !.firmwareVersion = IF Rejected(a) THEN <<>> ELSE a.ver]
       /\ warnings' = IF Rejected(a) /\ scan.op = "project"
                      THEN Warn(warnings, 0, 0) ELSE warnings
  /\ UNCHANGED <<toolVars, ports, bridgeQuiet, songs, setlists, macros, store, exported>>

\* the loops over GLOBAL_KEYS and DISPLAY_KEYS
ScanKey ==
  /\ scan.stage \in {"global", "display"}
  /\ \E a \in Answers(scan.stage, scan.index) :
       /\ Asked(a, scan.index, 0)
       /\ warnings' = IF IsSuccess(a) THEN warnings ELSE Warn(warnings, scan.index, 0)
       /\ scan' = LoopOn(scan, 0, FALSE, "key")
  /\ UNCHANGED <<toolVars, ports, bridgeQuiet, songs, setlists, macros, store, exported>>

\* the loop over the jacks and JACK_PARAM_KEYS: importProjectFromPedal warns
\* about a parameter that is not a success, importSettingsFromPedal does not
ScanJack ==
  /\ scan.stage = "jacks"
  /\ \E a \in Answers("jacks", scan.index) :
       /\ Asked(a, scan.index, scan.sub)
       /\ warnings' = IF Rejected(a) \/ (~IsSuccess(a) /\ scan.op = "project")
                      THEN Warn(warnings, scan.index, scan.sub) ELSE warnings
       /\ scan' = IF scan.sub + 1 < JACK_PARAM_KEY_COUNT
                  THEN [scan EXCEPT !.sub = @ + 1]
                  ELSE LoopOn(scan, 0, FALSE, "key")
  /\ UNCHANGED <<toolVars, ports, bridgeQuiet, songs, setlists, macros, store, exported>>

\* the loop over the song slots
ScanSong ==
  /\ scan.stage = "songs"
  /\ \E a \in Answers("song", scan.index) :
       /\ Asked(a, scan.index, 0)
       /\ IF Rejected(a)
          THEN /\ warnings' = Warn(warnings, scan.index, 0)
               /\ scan' = LoopOn(scan, scan.run, FALSE, "noname")
               /\ UNCHANGED songs
          ELSE IF ~IsSuccess(a)
          THEN /\ scan' = LoopOn(scan, scan.run, FALSE, "noname")
               /\ UNCHANGED <<songs, warnings>>
          ELSE LET song == mapSongResponse(a, scan.index)
                   v == SlotVerdict(~isSongUsed(song), scan.importAll, scan.run, SONG_DEFAULT_STOP)
               IN /\ songs' = IF v.keep THEN Append(songs, song) ELSE songs
                  /\ scan' = LoopOn(scan, v.run, v.break, IF isSongUsed(song) THEN "used" ELSE "default")
                  /\ UNCHANGED warnings
  /\ UNCHANGED <<toolVars, ports, bridgeQuiet, setlists, macros, store, exported>>

\* the end of a setlist slot: mapSetlistResponse and the default-run rule
SetlistDone(sc, songIds) ==
  LET setlist == mapSetlistResponse(sc.nameResponse, sc.index, songIds)
      isDefault == isDefaultSetlist(setlist, sc.index)
      v == SlotVerdict(isDefault, sc.importAll, sc.run, SETLIST_DEFAULT_STOP)
  IN /\ setlists' = IF v.keep THEN Append(setlists, setlist) ELSE setlists
     /\ scan' = LoopOn(sc, v.run, v.break, IF isDefault THEN "default" ELSE "used")

\* the loop over the setlist slots: get_setlist_name
ScanSetlistName ==
  /\ scan.stage = "setlists" /\ scan.sub = 0
  /\ \E a \in Answers("setlistName", scan.index) :
       /\ Asked(a, scan.index, 0)
       /\ IF Rejected(a)
          THEN /\ warnings' = Warn(warnings, scan.index, 0)
               /\ scan' = LoopOn(scan, scan.run, FALSE, "noname")
          ELSE IF ~IsSuccess(a)
          THEN /\ scan' = LoopOn(scan, scan.run, FALSE, "noname")
               /\ UNCHANGED warnings
          ELSE /\ scan' = [scan EXCEPT !.sub = 1, !.nameResponse = a, !.songIds = <<>>]
               /\ UNCHANGED warnings
  /\ UNCHANGED <<toolVars, ports, bridgeQuiet, songs, setlists, macros, store, exported>>

\* loadSetlistSongs: one section query (or the legacy query); a query that
\* rejects is only logged with console.warn
ScanSetlistSongs ==
  /\ scan.stage = "setlists" /\ scan.sub >= 1
  /\ \E a \in Answers("setlistSongs", scan.index) :
       /\ Asked(a, scan.index, scan.sub)
       /\ LET songIds == IF IsSuccess(a)
                         THEN scan.songIds \o [k \in 1..a.n |-> k - 1]
                         ELSE scan.songIds
              last == ~UsesSections(scan.firmwareVersion) \/ scan.sub >= SETLIST_SECTION_COUNT
          IN IF last
             THEN SetlistDone(scan, songIds)
             ELSE /\ scan' = [scan EXCEPT !.sub = @ + 1, !.songIds = songIds]
                  /\ UNCHANGED setlists
  /\ UNCHANGED <<toolVars, ports, bridgeQuiet, songs, macros, warnings, store, exported>>

\* mapMidiCommand: a CC or PC response becomes a step, any other type null
mapMidiCommand(response, macroIndex, slot) ==
  IF response.type \in {"CC", "PC"}
  THEN <<[kind |-> response.type, slot |-> slot]>>
  ELSE <<>>

\* the end of a macro slot: mapMacroResponse and the default-run rule
MacroDone(sc, steps) ==
  LET macro == mapMacroResponse(sc.nameResponse, sc.index, steps)
      isDefault == isDefaultMacro(macro, sc.index)
      v == SlotVerdict(isDefault, sc.importAll, sc.run, MACRO_DEFAULT_STOP)
  IN /\ macros' = IF v.keep THEN Append(macros, macro) ELSE macros
     /\ scan' = LoopOn(sc, v.run, v.break, IF isDefault THEN "default" ELSE "used")

\* the loop over the macro slots: get_macro_name
ScanMacroName ==
  /\ scan.stage = "macros" /\ scan.sub = 0
  /\ \E a \in Answers("macroName", scan.index) :
       /\ Asked(a, scan.index, 0)
       /\ IF Rejected(a)
          THEN /\ warnings' = Warn(warnings, scan.index, 0)
               /\ scan' = LoopOn(scan, scan.run, FALSE, "noname")
          ELSE IF ~IsSuccess(a)
          THEN /\ scan' = LoopOn(scan, scan.run, FALSE, "noname")
               /\ UNCHANGED warnings
          ELSE /\ scan' = [scan EXCEPT !.sub = 1, !.nameResponse = a, !.steps = <<>>]
               /\ UNCHANGED warnings
  /\ UNCHANGED <<toolVars, ports, bridgeQuiet, songs, setlists, macros, store, exported>>

\* get_macro_map: the active slots of the macro; a map that rejects is
\* caught by the catch of the slot, one that is not a success skips the slot
ScanMacroMap ==
  /\ scan.stage = "macros" /\ scan.sub = 1
  /\ \E a \in Answers("macroMap", scan.index) :
       /\ Asked(a, scan.index, 1)
       /\ IF Rejected(a)
          THEN /\ warnings' = Warn(warnings, scan.index, 1)
               /\ scan' = LoopOn(scan, scan.run, FALSE, "nomap")
               /\ UNCHANGED macros
          ELSE IF ~IsSuccess(a)
          THEN /\ scan' = LoopOn(scan, scan.run, FALSE, "nomap")
               /\ UNCHANGED <<macros, warnings>>
          ELSE IF a.n = 0
          THEN /\ MacroDone(scan, <<>>)
               /\ UNCHANGED warnings
          ELSE /\ scan' = [scan EXCEPT !.sub = 2, !.activeSlots = a.n]
               /\ UNCHANGED <<macros, warnings>>
  /\ UNCHANGED <<toolVars, ports, bridgeQuiet, songs, setlists, store, exported>>

\* get_macro_cmd for the next active slot
ScanMacroStep ==
  /\ scan.stage = "macros" /\ scan.sub >= 2
  /\ \E a \in Answers("macroStep", scan.index) :
       /\ Asked(a, scan.index, scan.sub)
       /\ LET slot == scan.sub - 2
              steps == IF IsSuccess(a)
                       THEN scan.steps \o mapMidiCommand(a, scan.index, slot)
                       ELSE scan.steps
          IN /\ warnings' = IF Rejected(a) THEN Warn(warnings, scan.index, scan.sub)
                            ELSE warnings
             /\ IF slot + 1 >= scan.activeSlots
                THEN MacroDone(scan, steps)
                ELSE /\ scan' = [scan EXCEPT !.sub = @ + 1, !.steps = steps]
                     /\ UNCHANGED macros
  /\ UNCHANGED <<toolVars, ports, bridgeQuiet, songs, setlists, store, exported>>

\* the code after the loops: the single-category imports disconnect the
\* bridge and replace their list in the store, importProjectFromPedal calls
\* applyImportToStore
Finalize ==
  /\ scan.stage = "finalize"
  /\ scan' = [scan EXCEPT !.stage = "done", !.result = "ok"]
  /\ IF scan.op = "project"
     THEN /\ store' = [store EXCEPT !.projectName = "Pedal Import", !.songs = songs,
                                    !.setlists = setlists, !.macros = macros]
          /\ UNCHANGED ports
     ELSE /\ store' = CASE scan.op = "songs" -> [store EXCEPT !.songs = songs]
                        [] scan.op = "setlists" -> [store EXCEPT !.setlists = setlists]
                        [] scan.op = "macros" -> [store EXCEPT !.macros = macros]
                        [] OTHER -> store
          /\ listener' = FALSE /\ output' = FALSE /\ input' = FALSE
  /\ UNCHANGED <<toolVars, bridgeRest, songs, setlists, macros, warnings, pedal, queried, failed,
                 exported>>

\* list.findIndex((item) => item.id === id)
FindIndex(list, id) ==
  IF \E k \in 1..Len(list) : list[k].id = id
  THEN (CHOOSE k \in 1..Len(list) : list[k].id = id /\ \A j \in 1..(k - 1) : list[j].id # id) - 1
  ELSE 0 - 1

\* handleSaveToDevice of the song, setlist and macro detail components, for
\* the record at position k of the store's list: the slot index handed to
\* exportSongToDevice / exportSetlistToDevice / exportMacroToDevice
SaveToDevice(cat, k) ==
  /\ scan.stage = "done" /\ scan.result = "ok"
  /\ k \in 1..Len(store[cat])
  /\ LET record == store[cat][k]
         slotIndex == FindIndex(store[cat], record.id)
     IN /\ slotIndex >= 0 /\ slotIndex < Capacity(cat)
        /\ exported' = <<[cat |-> cat, id |-> record.id, slotIndex |-> slotIndex]>>
  /\ scan' = [scan EXCEPT !.stage = "saved"]
  /\ UNCHANGED <<toolVars, bridgeVars, songs, setlists, macros, warnings, store, pedal, queried, failed>>

\* the sample project the store starts with
SampleId(prefix) == [prefix |-> prefix, digits |-> <<>>]
SampleStore ==
  [projectName |-> "Pedal Project",
   songs |-> <<[id |-> SampleId("song-"), title |-> CustomName, tempo |-> 120, macros |-> <<>>]>>,
   setlists |-> <<[id |-> SampleId("setlist-"), name |-> CustomName, entries |-> <<>>]>>,
   macros |-> <<[id |-> SampleId("macro-"), name |-> CustomName, steps |-> <<>>]>>]

InitScan ==
  /\ output = FALSE /\ input = FALSE /\ listener = FALSE
  /\ pending = None /\ timers = {}
  /\ firmwareVersions = [micro |-> 0, dsp |-> 0]
  /\ calls = [c \in Callers |-> IdleCall]
  /\ outcome = [c \in Callers |-> NoError]
  /\ writers = {} /\ wire = [last |-> NoChunk, chunks |-> {}]
  /\ outstanding = {} /\ inflight = {} /\ cancelled = {} /\ connects = 0 /\ heard = ""
  /\ \E op \in Ops, all \in BOOLEAN :
       /\ op = "settings" => ~all
       /\ scan = [op |-> op, importAll |-> all, stage |-> "connect", index |-> 0, sub |-> 0,
                  run |-> 0, stopped |-> {}, history |-> [cat \in {"songs", "setlists", "macros"} |-> <<>>], firmwareVersion |-> <<>>,
                  nameResponse |-> Reject, songIds |-> <<>>, steps |-> <<>>,
                  activeSlots |-> 0, result |-> ""]
       /\ \E f \in 1..(Len(Stages(op)) - 1), t \in Tails :
            pedal = [focus |-> Stages(op)[f], tail |-> t, free |-> FreeAnswers, link |-> TRUE]
  /\ songs = <<>> /\ setlists = <<>> /\ macros = <<>> /\ warnings = <<>>
  /\ store = SampleStore
  /\ queried = {} /\ failed = {} /\ exported = <<>>
  /\ exporter = Idle /\ compressor = Idle /\ codec = Idle /\ bridges = NoBridges

NextScan ==
  \/ \E found \in BOOLEAN : ScanConnect(found)
  \/ ScanSend
  \/ ScanFirmware
  \/ ScanKey
  \/ ScanJack
  \/ ScanSong
  \/ ScanSetlistName
  \/ ScanSetlistSongs
  \/ ScanMacroName
  \/ ScanMacroMap
  \/ ScanMacroStep
  \/ Finalize
  \/ \E cat \in {"songs", "setlists", "macros"}, k \in 1..MaxSavePos : SaveToDevice(cat, k)

SpecScan == InitScan /\ [][NextScan]_vars

\* the import runs on: the code after an await runs once the awaited call
\* has settled
SpecScanRuns == InitScan /\ [][NextScan]_vars /\ WF_vars(NextScan)

(***************************************************************************)
(* Macro steps and partials                                                *)
(***************************************************************************)
MaxSteps == 3
MaxPartials == 2

\* a MidiStep; id is the identity of the step, which stepsEqual ignores
Step(kind, channel, controller, program, value, bytes, partialId, id) ==
  [kind |-> kind, channel |-> channel, controller |-> controller, program |-> program,
   value |-> value, bytes |-> bytes, partialId |-> partialId, id |-> id]
CC(channel, controller, value, id) == Step("cc", channel, controller, 0, value, <<>>, "", id)
PC(channel, program, id) == Step("pc", channel, 0, program, 0, <<>>, "", id)
Custom(bytes, id) == Step("custom", 0, 0, 0, 0, bytes, "", id)
PartialRef(partialId, id) == Step("partial", 0, 0, 0, 0, <<>>, partialId, id)

\* the fields stepsEqual compares
Semantic(step) == [step EXCEPT !.id = ""]

\* the raw steps a macro or a partial is made of, with identity id
RawSteps(id) == {CC(1, 10, 64, id), CC(1, 10, 65, id), PC(1, 5, id), Custom(<<240, 1, 247>>, id)}

\* the partials a catalog is drawn from
PartialLibrary ==
  {[id |-> "P1", commands |-> <<CC(1, 10, 64, "p")>>],
   [id |-> "P2", commands |-> <<CC(1, 10, 64, "p"), PC(1, 5, "p")>>],
   [id |-> "P3", commands |-> <<>>],
   [id |-> "P4", commands |-> <<Custom(<<240, 1, 247>>, "p"), CC(1, 10, 65, "p")>>]}

SeqsUpTo(S, n) == UNION {[1..k -> S] : k \in 0..n}

\* the catalogs: partials of the library with distinct ids, in any order
Catalogs ==
  {c \in SeqsUpTo(PartialLibrary, MaxPartials) :
     \A i, j \in 1..Len(c) : i # j => c[i].id # c[j].id}

stepsEqual_kindOnly(a, b) == a.kind = b.kind
stepsEqual(a, b) ==
  IF a.kind # b.kind THEN FALSE
  ELSE CASE a.kind = "cc" ->
              a.channel = b.channel /\ a.controller = b.controller /\ a.value = b.value
         [] a.kind = "pc" -> a.channel = b.channel /\ a.program = b.program
         [] a.kind = "custom" ->
              Len(a.bytes) = Len(b.bytes) /\ \A k \in 1..Len(a.bytes) : a.bytes[k] = b.bytes[k]
         [] a.kind = "partial" -> a.partialId = b.partialId

\* the test of the inner loop of replaceWithPartials for one partial at
\* position i (0-based) of steps
MatchesAt(steps, i, partial) ==
  /\ Len(partial.commands) # 0
  /\ i + Len(partial.commands) <= Len(steps)
  /\ \A idx \in 1..Len(partial.commands) : stepsEqual(steps[i + idx], partial.commands[idx])

\* `for (const partial of partials) { ... break; }`: of the partials that
\* match, the one that comes first in the catalog
FirstMatch_last(hits) == CHOOSE k \in hits : \A j \in hits : k >= j
FirstMatch(hits) == CHOOSE k \in hits : \A j \in hits : k <= j

\* the while loop of replaceWithPartials from position i on
RECURSIVE OptimizedSteps(_, _, _)
OptimizedSteps(steps, i, partials) ==
  IF i >= Len(steps) THEN <<>>
  ELSE LET hits == {k \in 1..Len(partials) : MatchesAt(steps, i, partials[k])}
       IN IF hits # {}
          THEN LET partial == partials[FirstMatch(hits)]
               IN <<PartialRef(partial.id, i)>>
                    \o OptimizedSteps(steps, i + Len(partial.commands), partials)
          ELSE <<steps[i + 1]>> \o OptimizedSteps(steps, i + 1, partials)

replaceWithPartials(macro, partials) ==
  IF Len(partials) = 0 \/ Len(macro.steps) = 0 THEN macro
  ELSE [macro EXCEPT !.steps = OptimizedSteps(macro.steps, 0, partials)]

\* partialMap.get(partialId): of two partials with one id the Map keeps the later
PartialOf(partialId, partials) ==
  LET found == {k \in 1..Len(partials) : partials[k].id = partialId}
  IN IF found = {} THEN <<>>
     ELSE <<partials[CHOOSE k \in found : \A j \in found : j <= k]>>

\* the body of the loop of expandMacroSteps: what one step contributes
ExpandStep_keepUnknown(step, partials) ==
  LET found == PartialOf(step.partialId, partials)
  IN IF step.kind = "partial" /\ found # <<>>
     THEN SelectSeq(found[1].commands,
                    LAMBDA command : command.kind \in {"cc", "pc", "custom"})
     ELSE <<step>>
ExpandStep(step, partials) ==
  LET found == PartialOf(step.partialId, partials)
  IN IF step.kind = "partial"
     THEN IF found # <<>>
          THEN SelectSeq(found[1].commands,
                         LAMBDA command : command.kind \in {"cc", "pc", "custom"})
          ELSE <<>>
     ELSE <<step>>

RECURSIVE expandMacroSteps(_, _)
expandMacroSteps(steps, partials) ==
  IF steps = <<>> THEN <<>>
  ELSE ExpandStep(Head(steps), partials) \o expandMacroSteps(Tail(steps), partials)

(***************************************************************************)
(* The exporter                                                            *)
(***************************************************************************)
\* the per-macro capacity of the firmware
MAX_MACRO_COMMANDS == 2

\* a field JSON.stringify leaves out
Undefined == "undefined"

\* the body of a sendJsonCommand call of the exporter
Command(cmd, index, slot, type, ch, num, val, name) ==
  [cmd |-> cmd, index |-> index, slot |-> slot, type |-> type, ch |-> ch, num |-> num,
   val |-> val, name |-> name]

\* the fields type, midi-ch, num, val of a set_macro_cmd command
Fields(type, ch, num, val) == [type |-> type, ch |-> ch, num |-> num, val |-> val]

\* the command of a vacant slot
EmptySlot == Fields("-", 1, 0, 0)

\* throw new Error(`[Exporter] Partial step "..." was not expanded before encoding. ...`)
NotExpanded == "Partial step was not expanded before encoding"

\* custom: every field undefined; a partial throws
encodeMidiStepForDevice(step) ==
  CASE step.kind = "cc" -> Fields("CC", step.channel, step.controller, step.value)
    [] step.kind = "pc" -> Fields("PC", step.channel, step.program, Undefined)
    [] step.kind = "custom" -> Fields(Undefined, Undefined, Undefined, Undefined)
    [] step.kind = "partial" -> Fields(NotExpanded, Undefined, Undefined, Undefined)

SetMacroCommand(slotIndex, slot, f) ==
  Command("set_macro_cmd", slotIndex, slot, f.type, f.ch, f.num, f.val, Undefined)

\* the commands exportMacroToDevice awaits one after the other
MacroCommands(macro, slotIndex, partials) ==
  LET expandedSteps == expandMacroSteps(macro.steps, partials)
  IN IF Len(expandedSteps) = 0
     THEN <<Command("clear_macro", slotIndex, Undefined, Undefined, Undefined, Undefined,
                    Undefined, Undefined)>>
     ELSE [k \in 1..MAX_MACRO_COMMANDS |->
             SetMacroCommand(slotIndex, k - 1,
                             IF k <= Len(expandedSteps)
                             THEN encodeMidiStepForDevice(expandedSteps[k])
                             ELSE EmptySlot)]
          \o <<Command("set_macro_name", slotIndex, Undefined, Undefined, Undefined,
                       Undefined, Undefined, macro.name)>>

getTimeSignatureValue(beatsPerBar, beatUnit) ==
  CASE beatsPerBar = 2 /\ beatUnit = 4 -> 1
    [] beatsPerBar = 3 /\ beatUnit = 4 -> 2
    [] beatsPerBar = 4 /\ beatUnit = 4 -> 3
    [] beatsPerBar = 6 /\ beatUnit = 8 -> 4
    [] OTHER -> 3

\* macroId.match(/macro-(\d+)/) and entry.songId.match(/song-(\d+)/): the
\* index in the id, -1 when the id has no digits
IndexInId(id) == IF id.digits # <<>> THEN ParseInt(id.digits) ELSE 0 - 1

\* set_param_value: name holds the param, val the value
SetParamValue(slotIndex, param, value) ==
  Command("set_param_value", slotIndex, Undefined, Undefined, Undefined, Undefined, value,
          param)

\* the commands exportSongToDevice awaits one after the other
SongCommands(song, slotIndex) ==
  LET macroValue == IF Len(song.macros) > 0 /\ song.macros[1].enabled
                    THEN IndexInId(song.macros[1].macroId) ELSE 0 - 1
      timeSignature == IF song.timeSignature = <<>> THEN <<4, 4>> ELSE song.timeSignature
  IN <<Command("set_song_name", slotIndex, Undefined, Undefined, Undefined, Undefined,
               Undefined, song.title),
       SetParamValue(slotIndex, "bpm", song.tempo),
       SetParamValue(slotIndex, "metro_time_sig",
                     getTimeSignatureValue(timeSignature[1], timeSignature[2])),
       SetParamValue(slotIndex, "midi_macro", macroValue)>>

\* the commands exportSetlistToDevice awaits one after the other
SetlistCommands(setlist, slotIndex) ==
  LET all == [k \in 1..Len(setlist.entries) |-> IndexInId(setlist.entries[k])]
      songIndices == SelectSeq(all, LAMBDA index : index >= 0)
  IN <<Command("set_setlist_name", slotIndex, Undefined, Undefined, Undefined, Undefined,
               Undefined, setlist.name),
       Command("set_setlist_songs", slotIndex, Undefined, Undefined, Undefined, Undefined,
               songIndices, Undefined)>>

SetGlobalVar(key) ==
  Command("set_global_var", Undefined, Undefined, Undefined, Undefined, Undefined,
          Undefined, key)

\* the keys unmapGlobalSettings writes for each section of the settings
SectionKeys(section) ==
  CASE section = "metronome" -> <<"met_accent", "met_division", "met_sound", "met_volume">>
    [] section = "sync" -> <<"var_sync_io", "var_sync_division", "var_sync_divide_by_2">>
    [] section = "tapTempo" -> <<"var_tap_tempo_override">>
    [] section = "midiRouting" ->
         <<"var_midi_send_clk", "var_midi_thru_en", "var_midi_channel_in",
           "var_midi_threshold", "var_midi_rx_clk_en", "var_midi_clk_thru_en",
           "var_midi_clk_pulses">>
    [] section = "footswitch" ->
         <<"footsw_l_tap", "footsw_l_hold", "footsw_r_tap", "footsw_r_hold">>

RECURSIVE unmapGlobalSettings(_)
unmapGlobalSettings(sections) ==
  IF sections = <<>> THEN <<>>
  ELSE SectionKeys(Head(sections)) \o unmapGlobalSettings(Tail(sections))

\* the commands exportGlobalSettingsToDevice awaits one after the other:
\* one per key, then one per jack that has a raw map
GlobalCommands(settings) ==
  LET keys == unmapGlobalSettings(settings.sections)
      jacks == SelectSeq(settings.jacks, LAMBDA jack : jack.raw)
  IN [k \in 1..Len(keys) |-> SetGlobalVar(keys[k])]
     \o [k \in 1..Len(jacks) |->
           Command("set_jack_cfg", jacks[k].index, Undefined, Undefined, Undefined,
                   Undefined, Undefined, Undefined)]

\* the commands exportDisplaySettingsToDevice awaits one after the other
DisplayCommands(settings) ==
  LET keys == SelectSeq(<<"var_brightness", "var_tempo_led_pulses", "var_display_orientation">>,
                        LAMBDA key : key \in settings.defined)
  IN [k \in 1..Len(keys) |-> SetGlobalVar(keys[k])]

\* the records the save handlers export
ExportSongs ==
  {[title |-> CustomName, tempo |-> 120, timeSignature |-> <<>>, macros |-> <<>>],
   [title |-> CustomName, tempo |-> 120, timeSignature |-> <<6, 8>>,
    macros |-> <<[macroId |-> MacroId(3), enabled |-> TRUE]>>],
   [title |-> CustomName, tempo |-> 120, timeSignature |-> <<5, 4>>,
    macros |-> <<[macroId |-> SampleId("macro-"), enabled |-> TRUE]>>],
   [title |-> CustomName, tempo |-> 120, timeSignature |-> <<4, 4>>,
    macros |-> <<[macroId |-> MacroId(3), enabled |-> FALSE]>>]}

ExportSetlists ==
  {[name |-> CustomName, entries |-> <<>>],
   [name |-> CustomName, entries |-> <<SongId(1), SampleId("song-"), SongId(0)>>]}

ExportGlobalSettings ==
  {[sections |-> <<>>, jacks |-> <<>>],
   [sections |-> <<"tapTempo">>, jacks |-> <<[index |-> 0, raw |-> TRUE]>>],
   [sections |-> <<"metronome", "sync", "tapTempo", "midiRouting", "footswitch">>,
    jacks |-> <<[index |-> 0, raw |-> TRUE], [index |-> 1, raw |-> FALSE]>>]}

ExportDisplaySettings ==
  {[defined |-> {"var_display_orientation"}],
   [defined |-> {"var_brightness", "var_tempo_led_pulses", "var_display_orientation"}]}

\* importMacrosFromPedal / importProjectFromPedal: the imported macro has
\* its command sequences replaced with partial references
Compress ==
  /\ compressor.stage = "raw"
  /\ exporter = Idle
  /\ compressor' = [compressor EXCEPT
                      !.stage = "compressed",
                      !.macro = replaceWithPartials(compressor.macro, compressor.catalog)]
  /\ UNCHANGED <<bridgeVars, scanVars, exporter, codec, bridges>>

\* the store's removePartial: each macro loses the steps that refer to the
\* partial, the partials lose the partial
removePartialSteps_anyPartial(steps, partialId) ==
  SelectSeq(steps, LAMBDA step : ~(step.kind = "partial"))
removePartialSteps(steps, partialId) ==
  SelectSeq(steps, LAMBDA step : ~(step.kind = "partial" /\ step.partialId = partialId))

removePartial(state, partialId) ==
  [partials |-> SelectSeq(state.partials, LAMBDA partial : partial.id # partialId),
   macros |-> [k \in 1..Len(state.macros) |->
                 [state.macros[k] EXCEPT !.steps = removePartialSteps(@, partialId)]]]

\* a macro the user built from the partials of the catalog: a reference to
\* each, a program change, and the references once more
ReferringMacro(catalog) ==
  [id |-> MacroId(1), name |-> CustomName,
   steps |-> [k \in 1..Len(catalog) |-> PartialRef(catalog[k].id, k)]
               \o <<PC(1, 5, "u")>>
               \o [k \in 1..Len(catalog) |-> PartialRef(catalog[k].id, Len(catalog) + 1 + k)]]

\* the user removes a partial from the store that holds the catalog, the
\* imported macro and a macro built by hand
RemovePartial(partialId) ==
  /\ compressor # Idle
  /\ compressor.stage \in {"raw", "compressed"}
  /\ exporter = Idle
  /\ LET state == [partials |-> compressor.catalog,
                   macros |-> <<compressor.macro, ReferringMacro(compressor.catalog)>>]
     IN compressor' = [stage |-> "removed", catalog |-> compressor.catalog,
                       raw |-> compressor.raw, macro |-> compressor.macro,
                       partialId |-> partialId, before |-> state,
                       after |-> removePartial(state, partialId)]
  /\ UNCHANGED <<bridgeVars, scanVars, exporter, codec, bridges>>

\* the save handler up to the first awaited write: ensurePedalBridge(), then
\* the export function with its slot check; an export with nothing to write
\* returns at once and the handler disconnects the bridge
StartExport(op, record, slotIndex, valid, plan, expandedSteps, partials) ==
  /\ exporter = Idle
  /\ exporter' = [stage |-> IF valid /\ plan # <<>> THEN "writing" ELSE "done",
                  op |-> op, record |-> record, slotIndex |-> slotIndex,
                  partials |-> partials,
                  expandedSteps |-> IF valid THEN expandedSteps ELSE <<>>,
                  plan |-> IF valid THEN plan ELSE <<>>, sent |-> <<>>,
                  rejected |-> FALSE,
                  result |-> IF ~valid THEN "error" ELSE IF plan = <<>> THEN "ok" ELSE ""]
  /\ IF valid /\ plan = <<>>
     THEN output' = FALSE /\ input' = FALSE /\ listener' = FALSE
     ELSE output' = TRUE /\ input' = TRUE /\ listener' = TRUE
  /\ UNCHANGED <<bridgeRest, scanVars, compressor, codec, bridges>>

ExportMacro(slotIndex, partials) ==
  /\ compressor.stage \in {"raw", "compressed"}
  /\ StartExport("macro", compressor.macro, slotIndex,
                 slotIndex >= 0 /\ slotIndex < MACRO_SLOT_COUNT,
                 MacroCommands(compressor.macro, slotIndex, partials),
                 expandMacroSteps(compressor.macro.steps, partials), partials)

ExportSong(song, slotIndex) ==
  /\ compressor = Idle
  /\ StartExport("song", song, slotIndex, slotIndex >= 0 /\ slotIndex < SONG_SLOT_COUNT,
                 SongCommands(song, slotIndex), <<>>, <<>>)

ExportSetlist(setlist, slotIndex) ==
  /\ compressor = Idle
  /\ StartExport("setlist", setlist, slotIndex,
                 slotIndex >= 0 /\ slotIndex < SETLIST_SLOT_COUNT,
                 SetlistCommands(setlist, slotIndex), <<>>, <<>>)

ExportGlobalSettings_(settings) ==
  /\ compressor = Idle
  /\ StartExport("global", settings, 0, TRUE, GlobalCommands(settings), <<>>, <<>>)

ExportDisplay(settings) ==
  /\ compressor = Idle
  /\ StartExport("display", settings, 0, TRUE, DisplayCommands(settings), <<>>, <<>>)

\* one `await bridge.sendJsonCommand(...)` of the export resolves or rejects.
\* No export function catches: a rejection leaves the function and reaches
\* the catch of the handler, which does not disconnect. After the last
\* write the handler disconnects the bridge.
ExportWrite(resolved) ==
  /\ exporter.stage = "writing"
  /\ LET next == Len(exporter.sent) + 1
     IN IF ~resolved
        THEN /\ exporter' = [exporter EXCEPT !.stage = "done", !.result = "error",
                                             !.rejected = TRUE]
             /\ UNCHANGED ports
        ELSE IF next = Len(exporter.plan)
        THEN /\ exporter' = [exporter EXCEPT !.stage = "done", !.result = "ok",
                                             !.sent = Append(@, exporter.plan[next])]
             /\ output' = FALSE /\ input' = FALSE /\ listener' = FALSE
        ELSE /\ exporter' = [exporter EXCEPT !.sent = Append(@, exporter.plan[next])]
             /\ UNCHANGED ports
  /\ UNCHANGED <<bridgeRest, scanVars, compressor, codec, bridges>>

InitExport ==
  /\ output = FALSE /\ input = FALSE /\ listener = FALSE
  /\ pending = None /\ timers = {}
  /\ firmwareVersions = [micro |-> 0, dsp |-> 0]
  /\ calls = [c \in Callers |-> IdleCall]
  /\ outcome = [c \in Callers |-> NoError]
  /\ writers = {} /\ wire = [last |-> NoChunk, chunks |-> {}]
  /\ outstanding = {} /\ inflight = {} /\ cancelled = {} /\ connects = 0 /\ heard = ""
  /\ scan = [stage |-> "off"]
  /\ songs = <<>> /\ setlists = <<>> /\ macros = <<>> /\ warnings = <<>>
  /\ store = [projectName |-> ""] /\ pedal = [link |-> TRUE]
  /\ queried = {} /\ failed = {} /\ exported = <<>>
  /\ exporter = Idle /\ codec = Idle /\ bridges = NoBridges
  /\ \/ compressor = Idle
     \/ \E steps \in SeqsUpTo(RawSteps("m"), MaxSteps), catalog \in Catalogs :
          compressor = [stage |-> "raw", catalog |-> catalog, raw |-> steps,
                        macro |-> [id |-> MacroId(0), name |-> CustomName, steps |-> steps]]

\* the partials of a store that has lost all but the first of the catalog
KnownPartials(catalog) == IF Len(catalog) = 0 THEN <<>> ELSE <<catalog[1]>>

NextExport ==
  \/ Compress
  \/ \E partial \in PartialLibrary : RemovePartial(partial.id)
  \/ /\ compressor # Idle
     /\ \E slotIndex \in {0, MACRO_SLOT_COUNT} :
          \E partials \in {compressor.catalog, <<>>, KnownPartials(compressor.catalog)} :
            ExportMacro(slotIndex, partials)
  \/ \E song \in ExportSongs, slotIndex \in {1, SONG_SLOT_COUNT} : ExportSong(song, slotIndex)
  \/ \E setlist \in ExportSetlists, slotIndex \in {1, SETLIST_SLOT_COUNT} :
       ExportSetlist(setlist, slotIndex)
  \/ \E settings \in ExportGlobalSettings : ExportGlobalSettings_(settings)
  \/ \E settings \in ExportDisplaySettings : ExportDisplay(settings)
  \/ \E resolved \in BOOLEAN : ExportWrite(resolved)

SpecExport == InitExport /\ [][NextExport]_vars

(***************************************************************************)
(* The packet codec                                                        *)
(***************************************************************************)
MIDI_PACKET_HEADER == <<222, 173>>
MIDI_PACKET_MAX_PAYLOAD == 256
DEFAULT_TIMEOUT_MS == 5000
HEADER_LENGTH == Len(MIDI_PACKET_HEADER) + 2

\* PedalResponseType
NONE == 0
MICRO_FIRMWARE == 1
DSP_FIRMWARE == 2
PRINTF == 4
ACK == 5
NACK == 6
JSON == 100
ACK_V2 == 200
NACK_V2 == 201

\* the longest payload of which every byte sequence is tried
MaxPayloadLen == 3

\* bytes a payload is made of: NUL, '1', '{', '}', the largest 7-bit byte and
\* two bytes with the high bit set that no UTF-8 text holds
ByteSamples == {0, 49, 123, 125, 127, 128, 255}

\* type bytes: every response type, two with no meaning, and the largest
TypeSamples == {NONE, MICRO_FIRMWARE, DSP_FIRMWARE, PRINTF, ACK, NACK, 7, JSON, ACK_V2,
                NACK_V2, 255}

\* bytes of a 4-byte group: both values of every bit position's high bit
GroupSamples == {0, 1, 127, 128, 129, 255}

\* firmware version numbers
VersionSamples == {0, 1, 2, 127}

\* value & 0x80, value & 0x7f, value | 0x80 and header & (1 << index)
HighBit(value) == (value \div 128) % 2 = 1
Low7(value) == value % 128
WithHighBit(value) == IF HighBit(value) THEN value ELSE value + 128
BitSet(header, index) == (header \div (2 ^ index)) % 2 = 1

\* bytes holds at most 4 bytes
encodeWord_noMask(bytes) ==
  LET padded == [k \in 1..4 |-> IF k <= Len(bytes) THEN bytes[k] ELSE 0]
      bit(k) == IF HighBit(padded[k]) THEN 2 ^ (k - 1) ELSE 0
  IN [k \in 1..4 |-> padded[k]] \o <<bit(1) + bit(2) + bit(3) + bit(4)>>
encodeWord(bytes) ==
  LET padded == [k \in 1..4 |-> IF k <= Len(bytes) THEN bytes[k] ELSE 0]
      bit(k) == IF HighBit(padded[k]) THEN 2 ^ (k - 1) ELSE 0
  IN [k \in 1..4 |-> Low7(padded[k])] \o <<bit(1) + bit(2) + bit(3) + bit(4)>>

decodeWord_low7(chunk) ==
  IF Len(chunk) # 5 THEN <<>> ELSE [k \in 1..4 |-> Low7(chunk[k])]
decodeWord(chunk) ==
  IF Len(chunk) # 5 THEN <<>>
  ELSE [k \in 1..4 |-> IF BitSet(chunk[5], k - 1) THEN WithHighBit(chunk[k])
                       ELSE Low7(chunk[k])]

\* a framed message: header, length, type and payload
Frame(payload, type) ==
  MIDI_PACKET_HEADER \o <<IF Len(payload) # 0 THEN Len(payload) - 1 ELSE 0, type % 256>>
    \o payload

\* the chunks of a payload of at most MIDI_PACKET_MAX_PAYLOAD bytes: the
\* frame, zeros up to a multiple of 4, and every 4 bytes packed into a word
buildPayloadChunks(payload, type) ==
  LET frame == Frame(payload, type)
      length == ((Len(frame) + 3) \div 4) * 4
      buffer == [k \in 1..length |-> IF k <= Len(frame) THEN frame[k] ELSE 0]
  IN [c \in 1..(length \div 4) |-> encodeWord(SubSeq(buffer, (c - 1) * 4 + 1, c * 4))]

\* the bytes of the chunks one after the other, as the decoder receives them
Concat(chunks) ==
  [k \in 1..(5 * Len(chunks)) |-> chunks[((k - 1) \div 5) + 1][((k - 1) % 5) + 1]]

startsWithHeader_lengthOnly(bytes) == Len(bytes) >= Len(MIDI_PACKET_HEADER)
startsWithHeader(bytes) ==
  /\ Len(bytes) >= Len(MIDI_PACKET_HEADER)
  /\ \A index \in 1..Len(MIDI_PACKET_HEADER) : bytes[index] = MIDI_PACKET_HEADER[index]

\* bytes without its zeros at the end
StripTrailingZeros(bytes) ==
  LET kept == {k \in 1..Len(bytes) : bytes[k] # 0}
  IN IF kept = {} THEN <<>>
     ELSE SubSeq(bytes, 1, CHOOSE k \in kept : \A j \in kept : j <= k)

\* copy.shift() when the first byte is 0xF0
DropSysexStart(buffer) == IF buffer # <<>> /\ buffer[1] = 240 THEN Tail(buffer) ELSE buffer

\* copy.pop() when the last byte is 0xF7
DropSysexEnd(buffer) ==
  IF buffer # <<>> /\ buffer[Len(buffer)] = 247 THEN SubSeq(buffer, 1, Len(buffer) - 1)
  ELSE buffer

\* the bytes of buffer from a position on
From(buffer, kept) ==
  IF kept = {} THEN <<>> ELSE SubSeq(buffer, CHOOSE k \in kept : \A j \in kept : k <= j, Len(buffer))

\* copy.shift() while the first byte is 0x00
DropLeadingZeros(buffer) == From(buffer, {k \in 1..Len(buffer) : buffer[k] # 0})

sanitizeSysex(buffer) == DropLeadingZeros(DropSysexEnd(DropSysexStart(buffer)))

\* the words of a buffer of 5-byte chunks, unpacked and put together
UnpackedWords(buffer) ==
  [k \in 1..(4 * (Len(buffer) \div 5)) |->
     decodeWord(SubSeq(buffer, 5 * ((k - 1) \div 4) + 1, 5 * ((k - 1) \div 4) + 5))
       [((k - 1) % 4) + 1]]

\* the end of tryUnpackPayload; null is [ok |-> FALSE]
HeaderedWords(words) ==
  IF ~startsWithHeader(words) THEN [ok |-> FALSE, words |-> <<>>]
  ELSE [ok |-> TRUE, words |-> StripTrailingZeros(words)]

tryUnpackPayload(buffer) ==
  IF Len(buffer) % 5 # 0 THEN [ok |-> FALSE, words |-> <<>>]
  ELSE HeaderedWords(UnpackedWords(buffer))

\* TextDecoder: a 7-bit byte is its character; 128 and 255 are no UTF-8 and
\* become U+FFFD each
ReplacementCharacter == 65533
decodeText(bytes) ==
  [k \in 1..Len(bytes) |-> IF bytes[k] < 128 THEN bytes[k] ELSE ReplacementCharacter]

\* String.prototype.split("\0")[0]
BeforeNul(text) ==
  LET nuls == {k \in 1..Len(text) : text[k] = 0}
  IN IF nuls = {} THEN text
     ELSE SubSeq(text, 1, (CHOOSE k \in nuls : \A j \in nuls : k <= j) - 1)

\* String.prototype.trim
WhiteSpace == {9, 10, 11, 12, 13, 32}
Trim(text) ==
  LET kept == {k \in 1..Len(text) : text[k] \notin WhiteSpace}
  IN IF kept = {} THEN <<>>
     ELSE SubSeq(text, CHOOSE k \in kept : \A j \in kept : k <= j,
                 CHOOSE k \in kept : \A j \in kept : j <= k)

\* JSON.parse succeeds: of the texts over the sampled characters, the empty
\* object and the numbers written with the digit 1
JsonParses(text) ==
  \/ text = <<123, 125>>
  \/ text # <<>> /\ \A k \in 1..Len(text) : text[k] = 49

\* a PedalDecodedMessage, or null
Decoded(type, code, domain, version, message, payload) ==
  [type |-> type, code |-> code, domain |-> domain, version |-> version,
   message |-> message, payload |-> payload]
Null == Decoded("null", 0, "", <<>>, <<>>, <<>>)

\* `${major}.${minor}`
VersionText(major, minor) == <<major, ".", minor>>

\* `if (unpacked) { sanitized = unpacked; }`
UnpackedOr(unpacked, sanitized) == IF unpacked.ok THEN unpacked.words ELSE sanitized

\* the bytes the decoder works on: the sanitized input, unpacked when it has
\* no header and unpacking finds one
Unpack(sanitized) ==
  IF startsWithHeader(sanitized) THEN sanitized
  ELSE UnpackedOr(tryUnpackPayload(sanitized), sanitized)

\* `payload.slice(0, -1)` when the last byte is 0
DropTrailingZero(payload) ==
  IF payload # <<>> /\ payload[Len(payload)] = 0 THEN SubSeq(payload, 1, Len(payload) - 1)
  ELSE payload

\* the end of decodePedalMessage: a JSON object in the text, or a raw message
FallbackOf(fallbackText, payload) ==
  IF /\ fallbackText # <<>>
     /\ fallbackText[1] = 123 /\ fallbackText[Len(fallbackText)] = 125
     /\ JsonParses(fallbackText)
  THEN Decoded("json", 0, "", <<>>, <<>>, fallbackText)
  ELSE Decoded("raw", 0, "", <<>>, <<>>, payload)

Fallback(payload) == FallbackOf(Trim(decodeText(payload)), payload)

\* case PedalResponseType.JSON
JsonMessage(jsonText) ==
  IF jsonText = <<>> THEN Null
  ELSE IF JsonParses(jsonText) THEN Decoded("json", 0, "", <<>>, <<>>, jsonText)
  ELSE Null

\* switch (messageType)
Dispatch(messageType, payload) ==
  CASE messageType \in {ACK, ACK_V2} -> Decoded("ack", 0, "", <<>>, <<>>, <<>>)
    [] messageType \in {NACK, NACK_V2} ->
         Decoded("nack", IF payload # <<>> THEN payload[1] ELSE 0, "", <<>>, <<>>, <<>>)
    [] messageType \in {MICRO_FIRMWARE, DSP_FIRMWARE} ->
         IF Len(payload) >= 2
         THEN Decoded("firmware", 0, IF messageType = MICRO_FIRMWARE THEN "micro" ELSE "dsp",
                      VersionText(payload[1], payload[2]), <<>>, <<>>)
         ELSE Fallback(payload)
    [] messageType = PRINTF -> Decoded("printf", 0, "", <<>>, decodeText(payload), <<>>)
    [] messageType = JSON -> JsonMessage(BeforeNul(decodeText(payload)))
    [] OTHER -> Fallback(payload)

\* the type byte and the payload of the bytes the decoder works on
DecodeBytes(sanitized) ==
  IF Len(sanitized) < 1 THEN Null
  ELSE IF startsWithHeader(sanitized) /\ Len(sanitized) >= HEADER_LENGTH
  THEN Dispatch(sanitized[HEADER_LENGTH],
                DropTrailingZero(SubSeq(sanitized, HEADER_LENGTH + 1, Len(sanitized))))
  ELSE Dispatch(sanitized[1], DropTrailingZero(Tail(sanitized)))

decodePedalMessage(rawData) == DecodeBytes(Unpack(sanitizeSysex(rawData)))

\* the longest byte sequence fed to the decoder as it is
MaxWireLen == 4

\* bytes of such a sequence: NUL, a byte with no meaning, ACK, '{', '}', the
\* two header bytes and the SysEx start and end
WireSamples == {0, 7, ACK, 123, 125, 222, 173, 240, 247}

\* the payloads of every length the encoder takes, and one too long
FilledPayloads ==
  {[k \in 1..length |-> byte] : length \in 0..(MIDI_PACKET_MAX_PAYLOAD + 1), byte \in {49, 255}}

\* sendJsonCommand's options.timeoutMs when the caller gives none
NoTimeoutOption == 0 - 1

\* the values of options.timeoutMs: none, zero, below and above the default
TimeoutOptions == {NoTimeoutOption, 0, 1000, DEFAULT_TIMEOUT_MS, 8000}

\* the timeout of one attempt of sendJsonCommand:
\* options.timeoutMs ?? Math.max(DEFAULT_TIMEOUT_MS, 1200 + chunks * 250)
AttemptTimeoutMs_orDefault(option, chunkCount) ==
  IF option = NoTimeoutOption \/ option = 0
  THEN IF DEFAULT_TIMEOUT_MS >= 1200 + chunkCount * 250 THEN DEFAULT_TIMEOUT_MS
       ELSE 1200 + chunkCount * 250
  ELSE option
AttemptTimeoutMs(option, chunkCount) ==
  IF option = NoTimeoutOption
  THEN IF DEFAULT_TIMEOUT_MS >= 1200 + chunkCount * 250 THEN DEFAULT_TIMEOUT_MS
       ELSE 1200 + chunkCount * 250
  ELSE option

Codec(stage, origin, payload, type, group, chunks, rawData, message) ==
  [stage |-> stage, origin |-> origin, payload |-> payload, type |-> type,
   group |-> group, chunks |-> chunks, rawData |-> rawData, message |-> message,
   option |-> NoTimeoutOption, timeoutMs |-> 0]

InitCodec ==
  /\ output = FALSE /\ input = FALSE /\ listener = FALSE
  /\ pending = None /\ timers = {}
  /\ firmwareVersions = [micro |-> 0, dsp |-> 0]
  /\ calls = [c \in Callers |-> IdleCall]
  /\ outcome = [c \in Callers |-> NoError]
  /\ writers = {} /\ wire = [last |-> NoChunk, chunks |-> {}]
  /\ outstanding = {} /\ inflight = {} /\ cancelled = {} /\ connects = 0 /\ heard = ""
  /\ scan = [stage |-> "off"]
  /\ songs = <<>> /\ setlists = <<>> /\ macros = <<>> /\ warnings = <<>>
  /\ store = [projectName |-> ""] /\ pedal = [link |-> TRUE]
  /\ queried = {} /\ failed = {} /\ exported = <<>>
  /\ exporter = Idle /\ compressor = Idle /\ bridges = NoBridges
  /\ \/ \E payload \in SeqsUpTo(ByteSamples, MaxPayloadLen), type \in TypeSamples :
          codec = Codec("payload", "", payload, type, <<>>, <<>>, <<>>, Null)
     \/ \E payload \in FilledPayloads, type \in {7, JSON} :
          codec = Codec("payload", "", payload, type, <<>>, <<>>, <<>>, Null)
     \/ \E major, minor \in VersionSamples, type \in {MICRO_FIRMWARE, DSP_FIRMWARE} :
          codec = Codec("payload", "", <<major, minor>>, type, <<>>, <<>>, <<>>, Null)
     \/ \E group \in [1..4 -> GroupSamples] :
          codec = Codec("group", "", <<>>, 0, group, <<>>, <<>>, Null)
     \/ \E rawData \in SeqsUpTo(WireSamples, MaxWireLen) :
          codec = Codec("wire", "", <<>>, 0, <<>>, <<>>, rawData, Null)

\* buildPayloadChunks: a payload that is too long throws
BuildChunks ==
  /\ codec.stage = "payload"
  /\ codec' = IF Len(codec.payload) > MIDI_PACKET_MAX_PAYLOAD
              THEN [codec EXCEPT !.stage = "thrown"]
              ELSE [codec EXCEPT !.stage = "built",
                                 !.chunks = buildPayloadChunks(codec.payload, codec.type)]
  /\ UNCHANGED <<bridgeVars, scanVars, exporter, compressor, bridges>>

\* the chunks come back one after the other and are decoded as one message
DecodeChunks ==
  /\ codec.stage = "built"
  /\ codec' = [codec EXCEPT !.stage = "decoded", !.origin = "chunks",
                            !.rawData = Concat(codec.chunks),
                            !.message = decodePedalMessage(Concat(codec.chunks))]
  /\ UNCHANGED <<bridgeVars, scanVars, exporter, compressor, bridges>>

\* the pedal sends the payload framed but not packed
DecodeFrame ==
  /\ codec.stage = "payload"
  /\ Len(codec.payload) <= MIDI_PACKET_MAX_PAYLOAD
  /\ codec' = [codec EXCEPT !.stage = "decoded", !.origin = "frame",
                            !.rawData = Frame(codec.payload, codec.type),
                            !.message = decodePedalMessage(Frame(codec.payload, codec.type))]
  /\ UNCHANGED <<bridgeVars, scanVars, exporter, compressor, bridges>>

\* any bytes arrive
DecodeWire ==
  /\ codec.stage = "wire"
  /\ codec' = [codec EXCEPT !.stage = "decoded", !.origin = "wire",
                            !.message = decodePedalMessage(codec.rawData)]
  /\ UNCHANGED <<bridgeVars, scanVars, exporter, compressor, bridges>>

\* sendJsonCommand, with the chunks built, works out the attempt's timeout
AttemptTimeout(option) ==
  /\ codec.stage = "built"
  /\ codec.type = JSON
  /\ codec' = [codec EXCEPT !.stage = "sending", !.option = option,
                            !.timeoutMs = AttemptTimeoutMs(option, Len(codec.chunks))]
  /\ UNCHANGED <<bridgeVars, scanVars, exporter, compressor, bridges>>

EncodeGroup ==
  /\ codec.stage = "group"
  /\ codec' = [codec EXCEPT !.stage = "word", !.chunks = <<encodeWord(codec.group)>>]
  /\ UNCHANGED <<bridgeVars, scanVars, exporter, compressor, bridges>>

DecodeGroup ==
  /\ codec.stage = "word"
  /\ codec' = [codec EXCEPT !.stage = "unpacked", !.rawData = decodeWord(codec.chunks[1])]
  /\ UNCHANGED <<bridgeVars, scanVars, exporter, compressor, bridges>>

NextCodec ==
  \/ BuildChunks
  \/ DecodeChunks
  \/ DecodeFrame
  \/ DecodeWire
  \/ \E option \in TimeoutOptions : AttemptTimeout(option)
  \/ EncodeGroup
  \/ DecodeGroup

SpecCodec == InitCodec /\ [][NextCodec]_vars

(***************************************************************************)
(* The operations and their bridges on the one input of the pedal          *)
(***************************************************************************)
\* the operations: the project import, the import of one category, and the
\* 'save to device' handlers
OperationKinds == {"project", "category", "export"}

\* ensurePedalBridge(): new PedalBridge(), connect() selects the ports and
\* attaches the bridge's own sysex listener to the input
OpenBridge(op, kind) ==
  /\ bridges[op].pc = "idle"
  /\ bridges' = [bridges EXCEPT ![op] = [NoBridge EXCEPT !.kind = kind, !.pc = "open",
                                                      !.listener = TRUE, !.ports = TRUE]]
  /\ UNCHANGED <<bridgeVars, scanVars, exporter, compressor, codec>>

\* await bridge.sendJsonCommand(...): sendOnce sets the bridge's pending
\* request and the request goes to the pedal
BridgeAsk(op) ==
  /\ bridges[op].pc = "open"
  /\ bridges[op].asked < MaxRequests
  /\ LET r == [call |-> op, att |-> bridges[op].asked + 1]
     IN /\ bridges' = [bridges EXCEPT ![op] = [@ EXCEPT !.pc = "awaiting", !.pending = r,
                                                       !.asked = @ + 1]]
        /\ outstanding' = outstanding \cup {r}
  /\ UNCHANGED <<output, input, listener, pending, timers, firmwareVersions, calls, outcome,
                 writers, wire, inflight, cancelled, connects, heard>>
  /\ UNCHANGED <<scanVars, exporter, compressor, codec>>

\* the attempt of operation op ends with a rejection: the import catches it
\* and goes on, the export throws out of the save handler, whose catch does
\* not disconnect
Rejection(b) ==
  IF b.kind = "export"
  THEN [b EXCEPT !.pc = "done", !.pending = None, !.failed = TRUE]
  ELSE [b EXCEPT !.pc = "open", !.pending = None]

\* the listener of bridge b handles message m: handleDecodedMessage
Hears(b, m) ==
  IF ~b.listener \/ b.pending = None THEN b
  ELSE IF ResolvesPending(m.type)
  THEN [b EXCEPT !.pc = "open", !.pending = None, !.settledBy = m.re]
  ELSE IF RejectsPending(m.type)
  THEN [Rejection(b) EXCEPT !.settledBy = m.re]
  ELSE b

\* the input emits a sysex event: every listener attached to it is called
InputEvent(m) ==
  /\ m \in inflight
  /\ inflight' = inflight \ {m}
  /\ bridges' = [op \in Operations |-> Hears(bridges[op], m)]
  /\ UNCHANGED <<output, input, listener, pending, timers, firmwareVersions, calls, outcome,
                 writers, wire, outstanding, cancelled, connects, heard>>
  /\ UNCHANGED <<scanVars, exporter, compressor, codec>>

\* the timer of the pending request of operation op fires
BridgeTimeout(op) ==
  /\ bridges[op].pc = "awaiting"
  /\ bridges' = [bridges EXCEPT ![op] = Rejection(@)]
  /\ UNCHANGED <<bridgeVars, scanVars, exporter, compressor, codec>>

\* the operation ends: the import of a category and the save handler call
\* bridge.disconnect(), importProjectFromPedal returns without it
Completes(op) ==
  /\ bridges[op].pc = "open"
  /\ bridges[op].asked >= 1
  /\ bridges' = [bridges EXCEPT ![op] =
                   IF @.kind = "project" THEN [@ EXCEPT !.pc = "done"]
                   ELSE [@ EXCEPT !.pc = "done", !.listener = FALSE, !.ports = FALSE]]
  /\ UNCHANGED <<bridgeVars, scanVars, exporter, compressor, codec>>

InitBridges ==
  /\ output = FALSE /\ input = FALSE /\ listener = FALSE
  /\ pending = None /\ timers = {}
  /\ firmwareVersions = [micro |-> 0, dsp |-> 0]
  /\ calls = [c \in Callers |-> IdleCall]
  /\ outcome = [c \in Callers |-> NoError]
  /\ writers = {} /\ wire = [last |-> NoChunk, chunks |-> {}]
  /\ outstanding = {} /\ inflight = {} /\ cancelled = {} /\ connects = 0 /\ heard = ""
  /\ scan = [stage |-> "off"]
  /\ songs = <<>> /\ setlists = <<>> /\ macros = <<>> /\ warnings = <<>>
  /\ store = [projectName |-> ""] /\ pedal = [link |-> TRUE]
  /\ queried = {} /\ failed = {} /\ exported = <<>>
  /\ exporter = Idle /\ compressor = Idle /\ codec = Idle
  /\ bridges = NoBridges

NextBridges ==
  \/ \E op \in Operations, kind \in OperationKinds : OpenBridge(op, kind)
  \/ \E op \in Operations : BridgeAsk(op)
  \/ \E r \in outstanding : \E m \in Responses(r) :
       PedalRespond(r, m) /\ UNCHANGED <<scanVars, toolVars>>
  \/ \E m \in inflight : InputEvent(m)
  \/ \E op \in Operations : BridgeTimeout(op)
  \/ \E op \in Operations : Completes(op)

SpecBridges == InitBridges /\ [][NextBridges]_vars

(***************************************************************************)
(* Claims about the bridge                                                 *)
(***************************************************************************)
\* caller c runs sendOnce in this step
RunsSendOnce(c) == calls'[c].attempts = calls[c].attempts + 1

\* the listener handles message m in this step
Handles(m) == m \in inflight /\ listener /\ inflight' = inflight \ {m}

Finished(c) == calls[c].pc \in {"resolved", "rejected"}

\* C1: when a send attempt starts while another request is pending, the
\* earlier request is rejected as superseded and the new attempt becomes the
\* single pending request, its first chunk written, without failing itself.
C1_SupersedeThenProceed ==
  [][\A c \in Callers :
       (RunsSendOnce(c) /\ pending # None) =>
          /\ outcome'[pending.call] = ErrSuperseded
          /\ pending' = [call |-> c, att |-> calls'[c].attempt]
          /\ calls'[c].pc = "awaiting"
          /\ [call |-> c, att |-> calls'[c].attempt, chunk |-> 0] \in wire'.chunks]_vars

\* C2: a sendJsonCommand call resolves only with the JSON response to its
\* own current attempt, never with the answer to an earlier attempt or to
\* another request.
C2_ResolvesWithOwnResponse ==
  \A c \in Callers :
    calls[c].pc = "resolved" => calls[c].response.re = [call |-> c, att |-> calls[c].attempt]

\* C3: sendJsonCommand with retries = r makes at most r send attempts, makes
\* no attempt after one resolved with a non-error payload, retries after each
\* rejected attempt while attempts remain, and after r failed attempts
\* rejects with the error of the last attempt.
C3_AttemptsInBudget ==
  \A c \in Callers :
    /\ calls[c].attempts <= calls[c].retries
    /\ calls[c].pc = "delay" => calls[c].attempts < calls[c].retries
    /\ calls[c].pc = "resolved" =>
         calls[c].response.status # "error" /\ outcome[c] = NoError
    /\ (calls[c].pc = "rejected" /\ calls[c].attempts > 0) =>
         calls[c].attempts = calls[c].retries /\ calls[c].error = outcome[c]
    /\ (calls[c].pc = "rejected" /\ calls[c].attempts = 0) =>
         calls[c].error = ErrNotConnected

C3_NoAttemptOnceFinished ==
  \A c \in Callers : Finished(c) => calls'[c] = calls[c]

C3_BoundedRetries == []C3_AttemptsInBudget /\ [][C3_NoAttemptOnceFinished]_vars

\* a call with retries >= 2 was rejected after all its attempts failed
C3_Witness ==
  \E c \in Callers :
    /\ calls[c].pc = "rejected"
    /\ calls[c].retries >= 2
    /\ calls[c].attempts = calls[c].retries
    /\ calls[c].error = ErrTimeout

\* C4: a sendJsonCommand call that was awaiting a response when disconnect()
\* ran rejects with the disconnected error, for any retries >= 1.
C4_DisconnectedErrorObserved ==
  \A c \in cancelled :
    Finished(c) => calls[c].pc = "rejected" /\ calls[c].error = ErrDisconnected

\* C5: an ACK or PRINTF message leaves the pending request pending with its
\* timeout armed; among incoming messages only a JSON message resolves the
\* pending attempt and only a NACK message rejects it.
C5_HandledMessage(m) ==
  LET c == pending.call IN
  /\ m.type \in {"ack", "printf"} =>
       pending' = pending /\ pending' \in timers' /\ calls' = calls /\ outcome' = outcome
  /\ pending' # pending => m.type \in {"json", "nack"}
  /\ (pending' # pending /\ outcome'[c] \in {NoError, ErrPedal}) => m.type = "json"
  /\ (pending' # pending /\ outcome'[c] \notin {NoError, ErrPedal}) => m.type = "nack"

C5_OnlyJsonOrNackSettle ==
  [][\A m \in inflight : (Handles(m) /\ pending # None) => C5_HandledMessage(m)]_vars

\* an ACK or PRINTF was handled while the request that is still pending was pending
C5_Witness ==
  /\ heard \in {"ack", "printf"}
  /\ pending # None
  /\ pending \in timers
  /\ calls[pending.call].pc = "awaiting"

(***************************************************************************)
(* Claims about the importer and the save handlers                         *)
(***************************************************************************)
Categories == {"songs", "setlists", "macros"}

StopAfter(cat) ==
  CASE cat = "songs" -> SONG_DEFAULT_STOP
    [] cat = "setlists" -> SETLIST_DEFAULT_STOP
    [] cat = "macros" -> MACRO_DEFAULT_STOP

Result(cat) ==
  CASE cat = "songs" -> songs
    [] cat = "setlists" -> setlists
    [] cat = "macros" -> macros

SlotOf(record) == ParseInt(record.id.digits)

\* the slots of a category the scan has finished, in the order it finished them
SlotHistory(cat) == scan.history[cat]

\* the number of default records since the last non-default record in the
\* finished slots h, slots that failed or were not a success left out
TrailingDefaults(h) ==
  Cardinality({k \in 1..Len(h) :
                 h[k][3] = "default" /\ \A j \in (k + 1)..Len(h) : h[j][3] # "used"})

Ascending(list) ==
  \A k \in 1..(Len(list) - 1) : SlotOf(list[k]) < SlotOf(list[k + 1])

\* the slots of the records in the result of a category
KeptSlots(cat) == {SlotOf(Result(cat)[j]) : j \in 1..Len(Result(cat))}

\* the scan of the category ran to its end in an import that returned
ScanEnded(cat) ==
  /\ scan.result = "ok"
  /\ \E k \in 1..Len(Stages(scan.op)) : Stages(scan.op)[k] = cat

\* C6: in a configured-only import the scan of a category stops as soon as
\* the number of default records since the last non-default record reaches
\* 5 (songs), 5 (macros) or 3 (setlists): no higher slot is queried and none
\* is in the result. A non-default record resets the count to 0; a slot that
\* fails or is not a success neither increments nor resets it.
C6_StopsAfterDefaultRun ==
  ~scan.importAll =>
    \A cat \in Categories :
      LET h == SlotHistory(cat)
          t == TrailingDefaults(h)
      IN /\ t <= StopAfter(cat)
         /\ scan.stage = cat => (t < StopAfter(cat) /\ (scan.sub = 0 => scan.run = t))
         /\ (t = StopAfter(cat)) <=> (\E i \in 0..(Capacity(cat) - 1) : <<cat, i>> \in scan.stopped)
         /\ \A s \in scan.stopped :
              s[1] = cat =>
                /\ h[Len(h)] = <<cat, s[2], "default">>
                /\ \A q \in queried : q[1] = cat => q[2] <= s[2]
                /\ \A k \in 1..Len(Result(cat)) : SlotOf(Result(cat)[k]) < s[2]

\* the song scan stopped at slot 6 after a used song, a failed slot and five
\* default songs
C6_Witness ==
  /\ ~scan.importAll
  /\ <<"songs", 6>> \in scan.stopped
  /\ Len(songs) = 1
  /\ \E i \in 0..6 : <<"songs", i, 0>> \in failed
  /\ \E k \in 2..Len(SlotHistory("songs")) :
       SlotHistory("songs")[k][3] = "default" /\ SlotHistory("songs")[k - 1][3] = "noname"

\* C7 as stated: with importAll the scan never stops early; the result of an
\* import that returned has every slot index up to the capacity queried and
\* every slot whose name or details query returned success kept, in
\* ascending slot order.
C7_EveryNamedSlotKept ==
  scan.importAll =>
    \A cat \in Categories :
      LET h == SlotHistory(cat)
          kept == KeptSlots(cat)
      IN /\ \A s \in scan.stopped : s[1] # cat
         /\ (scan.stage = "done" /\ ScanEnded(cat)) =>
              /\ \A i \in 0..(Capacity(cat) - 1) : <<cat, i>> \in queried
              /\ \A k \in 1..Len(h) : h[k][3] # "noname" => h[k][2] \in kept
              /\ Ascending(Result(cat))

\* C7: with importAll the scan never stops early; when the import returns,
\* every slot index from 0 to the capacity - 1 was queried, and every slot
\* whose name or details query and, for a macro, whose map query too
\* returned success is in the result, default or not, in ascending slot
\* order.
C7_ImportAllKeepsEverySuccess ==
  scan.importAll =>
    \A cat \in Categories :
      LET h == SlotHistory(cat)
          kept == KeptSlots(cat)
      IN /\ \A s \in scan.stopped : s[1] # cat
         /\ (scan.stage = "done" /\ ScanEnded(cat)) =>
              /\ \A i \in 0..(Capacity(cat) - 1) : <<cat, i>> \in queried
              /\ \A k \in 1..Len(h) : h[k][3] \in {"used", "default"} => h[k][2] \in kept
              /\ Ascending(Result(cat))

\* an import of all macros ended: one macro lost to its map query, every
\* other slot kept, default macros among them
C7_Witness ==
  /\ scan.importAll
  /\ ScanEnded("macros")
  /\ Len(macros) = MACRO_SLOT_COUNT - 1
  /\ \E k \in 1..Len(SlotHistory("macros")) : SlotHistory("macros")[k][3] = "nomap"
  /\ \E j \in 1..Len(macros) : isDefaultMacro(macros[j], SlotOf(macros[j]))

\* C8: the slot index a save-to-device handler hands to the exporter is the
\* index encoded in the id of the imported record.
C8_SlotIndexIsIdIndex ==
  \A k \in 1..Len(exported) :
    exported[k].id.digits # <<>> => exported[k].slotIndex = ParseInt(exported[k].id.digits)

\* C9: when the connection to the pedal is lost during a scan the import
\* aborts with an error and the store is not replaced.
C9_LostConnectionAborts ==
  (~pedal.link /\ scan.stage \in {"done", "saved"}) =>
    (scan.result = "error" /\ store = SampleStore)

\* C10: every query of the scan that fails (a global key, a display key, a
\* jack parameter, a song, a setlist name, a setlist song section, a macro
\* name, a macro map, a macro step) adds a warning.
C10_EveryFailedQueryWarns ==
  \A f \in failed :
    f[1] # "firmware" => \E k \in 1..Len(warnings) : warnings[k] = f

(***************************************************************************)
(* Claims about the exporter                                               *)
(***************************************************************************)
MacroExportDone ==
  exporter # Idle /\ exporter.op = "macro" /\ exporter.stage = "done" /\ exporter.result = "ok"

\* the set_macro_cmd commands a macro export sent, in the order sent
StepWrites == SelectSeq(exporter.sent, LAMBDA command : command.cmd = "set_macro_cmd")

\* a command carries a step when it names the step's message type, channel,
\* number and, for a control change, value
Carries(command, step) ==
  \/ /\ step.kind = "cc" /\ command.type = "CC" /\ command.ch = step.channel
     /\ command.num = step.controller /\ command.val = step.value
  \/ /\ step.kind = "pc" /\ command.type = "PC" /\ command.ch = step.channel
     /\ command.num = step.program
  \/ /\ step.kind = "custom" /\ command.type # Undefined

IsEmptySentinel(command) ==
  command.type = "-" /\ command.ch = 1 /\ command.num = 0 /\ command.val = 0

\* C11: a completed export of a macro with n >= 1 expanded steps has sent
\* exactly MAX_MACRO_COMMANDS set_macro_cmd commands, for the slots
\* 0..MAX_MACRO_COMMANDS-1 in ascending order; the command of slot k carries
\* step k when k < n and the empty sentinel otherwise
C11_EverySlotWritten ==
  (MacroExportDone /\ Len(exporter.expandedSteps) >= 1) =>
    /\ Len(StepWrites) = MAX_MACRO_COMMANDS
    /\ \A k \in 1..Len(StepWrites) :
         /\ StepWrites[k].slot = k - 1
         /\ IF k <= Len(exporter.expandedSteps)
            THEN Carries(StepWrites[k], exporter.expandedSteps[k])
            ELSE IsEmptySentinel(StepWrites[k])

\* C12: every macro export that completes without error has sent
\* set_macro_name with the macro's name, as its last command, after every
\* step write
C12_NameWrittenLast ==
  MacroExportDone =>
    /\ exporter.sent # <<>>
    /\ LET last == exporter.sent[Len(exporter.sent)]
       IN last.cmd = "set_macro_name" /\ last.name = exporter.record.name
    /\ \A k \in 1..(Len(exporter.sent) - 1) : exporter.sent[k].cmd # "set_macro_name"

\* C13: when one write of an export fails, the export still runs to its end:
\* the failure is a warning and the remaining writes are sent
C13_FailedWriteIsWarning ==
  (exporter # Idle /\ exporter.stage = "done" /\ exporter.rejected) =>
    /\ exporter.result = "ok"
    /\ Len(exporter.sent) >= Len(exporter.plan) - 1

(***************************************************************************)
(* Claims about partials                                                   *)
(***************************************************************************)
\* the macro went through replaceWithPartials and is being exported with
\* the catalog it was compressed with
RoundTripDone ==
  /\ compressor # Idle /\ compressor.stage = "compressed"
  /\ exporter # Idle /\ exporter.op = "macro" /\ exporter.slotIndex < MACRO_SLOT_COUNT
  /\ exporter.partials = compressor.catalog

\* C14: for every raw step list and every catalog with distinct ids holding
\* only raw commands, expanding the compressed list with the same catalog
\* gives the original list back, step for step on the semantic fields
C14_ExpandUndoesCompress ==
  RoundTripDone =>
    /\ Len(exporter.expandedSteps) = Len(compressor.raw)
    /\ \A k \in 1..Len(compressor.raw) :
         Semantic(exporter.expandedSteps[k]) = Semantic(compressor.raw[k])

\* a run of several steps was replaced by one reference and expanded again
C14_Witness ==
  /\ RoundTripDone
  /\ Len(compressor.macro.steps) < Len(compressor.raw)
  /\ \E k \in 1..Len(compressor.macro.steps) : compressor.macro.steps[k].kind = "partial"

\* the commands of the catalog's partial with this id (ids are distinct)
CommandsOf(partialId, catalog) ==
  (CHOOSE partial \in {catalog[k] : k \in 1..Len(catalog)} : partial.id = partialId).commands

\* how many input steps an output step stands for
Width(step, catalog) ==
  IF step.kind = "partial" THEN Len(CommandsOf(step.partialId, catalog)) ELSE 1

\* the 0-based input position the j-th output step starts at
RECURSIVE StartOf(_, _, _)
StartOf(out, j, catalog) ==
  IF j = 1 THEN 0 ELSE StartOf(out, j - 1, catalog) + Width(out[j - 1], catalog)

\* the catalog positions of the partials that fit and match at position i
Fitting(steps, i, catalog) ==
  {p \in 1..Len(catalog) :
     /\ catalog[p].commands # <<>>
     /\ i + Len(catalog[p].commands) <= Len(steps)
     /\ \A d \in 1..Len(catalog[p].commands) :
          Semantic(steps[i + d]) = Semantic(catalog[p].commands[d])}

\* C15: replaceWithPartials scans left to right; at each position the first
\* partial in catalog order whose non-empty command list fits and matches
\* wins, whatever longer match comes later, and one reference stands for
\* that run; where none matches the step is copied. With the catalog
\* [P1 = [CC(1,10,64)]] the steps [CC(1,10,64), CC(1,10,64), PC(1,5)] become
\* [Ref(P1), Ref(P1), PC(1,5)].
C15_FirstMatchWins ==
  (compressor # Idle /\ compressor.stage = "compressed" /\ exporter = Idle) =>
    LET out == compressor.macro.steps
        raw == compressor.raw
        catalog == compressor.catalog
    IN /\ \A j \in 1..Len(out) :
            LET i == StartOf(out, j, catalog)
                fitting == Fitting(raw, i, catalog)
            IN /\ i < Len(raw)
               /\ IF fitting = {}
                  THEN out[j] = raw[i + 1]
                  ELSE /\ out[j].kind = "partial"
                       /\ \E p \in fitting : /\ out[j].partialId = catalog[p].id
                                             /\ \A q \in fitting : p <= q
       /\ (out # <<>> \/ raw # <<>>) =>
            StartOf(out, Len(out), catalog) + Width(out[Len(out)], catalog) = Len(raw)
       /\ ([k \in 1..Len(catalog) |-> catalog[k].id] = <<"P1">>
           /\ [k \in 1..Len(raw) |-> Semantic(raw[k])]
                = <<Semantic(CC(1, 10, 64, "")), Semantic(CC(1, 10, 64, "")),
                    Semantic(PC(1, 5, ""))>>)
          => /\ Len(out) = 3
             /\ out[1].kind = "partial" /\ out[1].partialId = "P1"
             /\ out[2].kind = "partial" /\ out[2].partialId = "P1"
             /\ out[3] = raw[3]

\* P1 = [CC(1,10,64)] stands before P2 = [CC(1,10,64), PC(1,5)] and wins at a
\* position where P2 matches too
C15_Witness ==
  /\ compressor # Idle /\ compressor.stage = "compressed" /\ exporter = Idle
  /\ \E j \in 1..Len(compressor.macro.steps) :
       LET fitting == Fitting(compressor.raw,
                              StartOf(compressor.macro.steps, j, compressor.catalog),
                              compressor.catalog)
       IN /\ Cardinality(fitting) >= 2
          /\ \E p, q \in fitting :
               /\ p < q
               /\ Len(compressor.catalog[p].commands) < Len(compressor.catalog[q].commands)
               /\ compressor.macro.steps[j].partialId = compressor.catalog[p].id

(***************************************************************************)
(* Claims about the packet codec                                           *)
(***************************************************************************)
\* the response type a decoded message stands for
TypeRecovered(message, type) ==
  CASE message.type = "ack" -> type \in {ACK, ACK_V2}
    [] message.type = "nack" -> type \in {NACK, NACK_V2}
    [] message.type = "firmware" ->
         type = (IF message.domain = "micro" THEN MICRO_FIRMWARE ELSE DSP_FIRMWARE)
    [] message.type = "printf" -> type = PRINTF
    [] message.type = "json" -> type = JSON
    [] message.type = "raw" ->
         type \notin {ACK, ACK_V2, NACK, NACK_V2, PRINTF, JSON}
    [] OTHER -> FALSE

\* the decoded message holds the payload, up to the zeros at its end
PayloadRecovered(message, payload) ==
  LET stripped == StripTrailingZeros(payload)
  IN CASE message.type = "ack" -> stripped = <<>>
       [] message.type = "nack" ->
            stripped = (IF message.code = 0 THEN <<>> ELSE <<message.code>>)
       [] message.type = "firmware" ->
            /\ Len(payload) >= 2
            /\ message.version = VersionText(payload[1], payload[2])
            /\ StripTrailingZeros(SubSeq(payload, 3, Len(payload))) = <<>>
       [] message.type = "printf" -> message.message = decodeText(stripped)
       [] message.type = "json" -> message.payload = decodeText(stripped)
       [] message.type = "raw" -> StripTrailingZeros(message.payload) = stripped
       [] OTHER -> FALSE

\* C16: for every payload of 0..256 bytes and every type byte, decoding the
\* concatenated chunks of buildPayloadChunks gives back the type and the
\* payload, up to trailing zeros
C16_DecodeUndoesEncode ==
  (codec # Idle /\ codec.stage = "decoded" /\ codec.origin = "chunks") =>
    /\ TypeRecovered(codec.message, codec.type)
    /\ PayloadRecovered(codec.message, codec.payload)

\* C17: decodeWord(encodeWord(group)) is the group, for every group of 4
\* bytes in 0..255: a byte 0xFF comes back as 0xFF
C17_WordRoundTrip ==
  (codec # Idle /\ codec.stage = "unpacked") => codec.rawData = codec.group

\* a group with 0xFF and a 7-bit byte went through both functions
C17_Witness ==
  /\ codec # Idle /\ codec.stage = "unpacked"
  /\ codec.group[1] = 255 /\ codec.rawData[1] = 255 /\ codec.chunks[1][1] = 127
  /\ codec.group[2] = 127 /\ codec.group[4] = 128 /\ codec.chunks[1][5] = 9

\* C18: for a payload of L bytes buildPayloadChunks returns ceil((L + 4) / 4)
\* chunks, each of 5 bytes, every byte in 0..127
C18_ChunkShape ==
  (codec # Idle /\ codec.stage = "built") =>
    /\ 4 * Len(codec.chunks) >= Len(codec.payload) + 4
    /\ 4 * (Len(codec.chunks) - 1) < Len(codec.payload) + 4
    /\ \A c \in 1..Len(codec.chunks) :
         /\ Len(codec.chunks[c]) = 5
         /\ \A k \in 1..5 : codec.chunks[c][k] \in 0..127

\* the longest payload, of bytes 0xFF, became 65 chunks
C18_Witness ==
  /\ codec # Idle /\ codec.stage = "built"
  /\ Len(codec.payload) = MIDI_PACKET_MAX_PAYLOAD /\ codec.payload[1] = 255
  /\ Len(codec.chunks) = 65 /\ codec.chunks[65][5] = 15

\* the bytes hold the header neither as they are, nor without the SysEx
\* envelope and leading zeros, nor after unpacking
HeaderAt(bytes) == Len(bytes) >= 2 /\ bytes[1] = 222 /\ bytes[2] = 173
WithoutHeader(rawData) ==
  /\ ~HeaderAt(rawData)
  /\ ~HeaderAt(sanitizeSysex(rawData))
  /\ ~(/\ Len(sanitizeSysex(rawData)) % 5 = 0
       /\ HeaderAt(UnpackedWords(sanitizeSysex(rawData))))

C20_FirmwareVersionDecoded ==
  (codec # Idle /\ codec.stage = "decoded" /\ codec.origin \in {"frame", "chunks"}
     /\ codec.type \in {MICRO_FIRMWARE, DSP_FIRMWARE} /\ Len(codec.payload) = 2
     /\ codec.payload[1] \in 0..127 /\ codec.payload[2] \in 0..127) =>
    /\ codec.message.type = "firmware"
    /\ codec.message.domain = (IF codec.type = MICRO_FIRMWARE THEN "micro" ELSE "dsp")
    /\ codec.message.version = VersionText(codec.payload[1], codec.payload[2])


(***************************************************************************)
(* Claims about the attempts of sendJsonCommand                            *)
(***************************************************************************)

\* C21: when options.timeoutMs is not given, the timeout of an attempt is the
\* larger of 5000 ms and 1200 + 250 * chunks ms (5000 ms for 3 chunks, 6200 ms
\* for 20 chunks); when it is given, the timeout is the given value
C21_TimeoutOfAttempt ==
  codec.stage = "sending" =>
    LET chunkCount == Len(codec.chunks)
        scaled == 1200 + 250 * chunkCount
    IN IF codec.option = NoTimeoutOption
       THEN /\ codec.timeoutMs >= 5000
            /\ codec.timeoutMs >= scaled
            /\ codec.timeoutMs \in {5000, scaled}
            /\ chunkCount = 3 => codec.timeoutMs = 5000
            /\ chunkCount = 20 => codec.timeoutMs = 6200
       ELSE codec.timeoutMs = codec.option

\* twenty chunks without an option wait 6200 ms
C21_Witness ==
  /\ codec.stage = "sending"
  /\ codec.option = NoTimeoutOption
  /\ Len(codec.chunks) = 20
  /\ codec.timeoutMs = 6200

\* C22: when the listener hands a NACK with code k to the pending attempt of a
\* call and that attempt is the call's last, the call rejects with the error
\* "Pedal responded with NACK (k)": a call whose attempts are all answered by
\* NACK k fails with a message that holds k
C22_NackCodeInError ==
  [][\A c \in Callers, m \in inflight :
       (/\ listener
        /\ m.type = "nack"
        /\ pending.call = c
        /\ inflight' = inflight \ {m}
        /\ calls[c].pc = "awaiting"
        /\ calls'[c].pc = "rejected")
       => /\ calls'[c].error.kind = "Pedal responded with NACK"
          /\ calls'[c].error.code = m.code]_vars

\* a call of three attempts has failed on NACK 3
C22_Witness ==
  \E c \in Callers :
    /\ calls[c].pc = "rejected"
    /\ calls[c].attempts = MaxRetries
    /\ calls[c].error.kind = "Pedal responded with NACK"
    /\ calls[c].error.code = 3

(***************************************************************************)
(* Claims about the store                                                  *)
(***************************************************************************)

\* the elements of seq at the positions of kept, in their order
Keeping(seq, kept) ==
  [j \in 1..Cardinality(kept) |->
     seq[CHOOSE k \in kept : Cardinality({i \in kept : i < k}) = j - 1]]

\* C23: removePartial(id) takes the partial with that id out of the partials
\* and keeps every other partial as it was and in its place; every macro keeps
\* its id and name and loses exactly the steps that are references to id, the
\* other steps staying in their order; afterwards no step of any macro is a
\* reference to id
C23_RemovePartialExact ==
  (compressor # Idle /\ compressor.stage = "removed") =>
    LET before == compressor.before
        after == compressor.after
        id == compressor.partialId
        refers(step) == step.kind = "partial" /\ step.partialId = id
    IN /\ after.partials =
            Keeping(before.partials,
                    {k \in 1..Len(before.partials) : before.partials[k].id # id})
       /\ Len(before.partials) - Len(after.partials)
            = Cardinality({k \in 1..Len(before.partials) : before.partials[k].id = id})
       /\ Len(after.macros) = Len(before.macros)
       /\ \A m \in 1..Len(before.macros) :
            /\ after.macros[m].id = before.macros[m].id
            /\ after.macros[m].name = before.macros[m].name
            /\ after.macros[m].steps =
                 Keeping(before.macros[m].steps,
                         {k \in 1..Len(before.macros[m].steps) :
                            ~refers(before.macros[m].steps[k])})
            /\ \A k \in 1..Len(after.macros[m].steps) : ~refers(after.macros[m].steps[k])

\* a partial of a catalog of two was removed; the imported macro referred to
\* both partials and the other macro had steps of other kinds
C23_Witness ==
  /\ compressor # Idle /\ compressor.stage = "removed"
  /\ Len(compressor.before.partials) = 2
  /\ Len(compressor.after.partials) = 1
  /\ LET steps == compressor.before.macros[1].steps
     IN /\ \E k \in 1..Len(steps) :
             steps[k].kind = "partial" /\ steps[k].partialId = compressor.partialId
        /\ \E k \in 1..Len(steps) :
             steps[k].kind = "partial" /\ steps[k].partialId # compressor.partialId
        /\ Len(compressor.after.macros[1].steps) = Len(steps) - 1
  /\ Len(compressor.before.macros[2].steps) = 5
  /\ Len(compressor.after.macros[2].steps) = 3
  /\ compressor.after.macros[2].steps[2].kind = "pc"

(***************************************************************************)
(* Claims about the order of the import's queries                          *)
(***************************************************************************)

\* C24: an import has at most one query on its way: while it is not waiting
\* the bridge has no pending request, and the step that sends a query finds
\* no pending request (the import never supersedes a request of its own) and
\* no query of this category for a slot after the one it asks about
C24_OneQueryAtATimeAscending ==
  /\ [](/\ Cardinality(outstanding) <= 1
        /\ calls[1].pc # "awaiting" => pending = None /\ outstanding = {})
  /\ [][(calls[1].pc # "awaiting" /\ calls'[1].pc = "awaiting")
         => /\ pending = None
            /\ outstanding = {}
            /\ outstanding' = {<<scan.stage, scan.index, scan.sub>>}
            /\ \A q \in queried : q[1] = scan.stage => q[2] <= scan.index]_vars

\* the import waits for the query of the third song slot, the first two
\* slots were asked before
C24_Witness ==
  /\ scan.stage = "songs" /\ scan.index = 2
  /\ calls[1].pc = "awaiting"
  /\ pending = [call |-> 1, att |-> 1]
  /\ outstanding = {<<"songs", 2, 0>>}
  /\ {<<"songs", 0>>, <<"songs", 1>>} \subseteq queried

(***************************************************************************)
(* Claims about the expansion of a macro's steps                           *)
(***************************************************************************)

\* the partials with the id of a reference
KnownAs(step, partials) == {k \in 1..Len(partials) : partials[k].id = step.partialId}

\* how many steps of the expanded list a step of the macro stands for
ExpandedWidth(step, partials) ==
  IF step.kind # "partial" THEN 1
  ELSE IF KnownAs(step, partials) = {} THEN 0
  ELSE Len(partials[CHOOSE k \in KnownAs(step, partials) : TRUE].commands)

\* how many steps of the expanded list the first j steps of the macro stand for
RECURSIVE ExpandedUpTo(_, _, _)
ExpandedUpTo(steps, j, partials) ==
  IF j = 0 THEN 0
  ELSE ExpandedUpTo(steps, j - 1, partials) + ExpandedWidth(steps[j], partials)

\* C25: the list expandMacroSteps returns has no step of kind partial: each
\* reference to a known partial stands, at its place, for the commands of the
\* partial in their order, a reference to an unknown partial for nothing, and
\* any other step for itself; no command of the export comes from the
\* "partial was not expanded" branch of encodeMidiStepForDevice
C25_ExpansionHasNoPartial ==
  (exporter # Idle /\ exporter.op = "macro" /\ exporter.result # "error") =>
    LET steps == exporter.record.steps
        partials == exporter.partials
        out == exporter.expandedSteps
    IN /\ \A k \in 1..Len(out) : out[k].kind # "partial"
       /\ Len(out) = ExpandedUpTo(steps, Len(steps), partials)
       /\ \A j \in 1..Len(steps) :
            \A d \in 1..ExpandedWidth(steps[j], partials) :
              out[ExpandedUpTo(steps, j - 1, partials) + d] =
                IF steps[j].kind = "partial"
                THEN partials[CHOOSE k \in KnownAs(steps[j], partials) : TRUE].commands[d]
                ELSE steps[j]
       /\ \A k \in 1..Len(exporter.plan) : exporter.plan[k].type # NotExpanded

\* a macro with a reference to a known partial and one to an unknown partial
\* is being exported: the expanded list is the commands of the known one
C25_Witness ==
  /\ exporter # Idle /\ exporter.op = "macro" /\ exporter.stage = "writing"
  /\ LET steps == exporter.record.steps
         partials == exporter.partials
     IN /\ \E j \in 1..Len(steps) :
             /\ steps[j].kind = "partial"
             /\ KnownAs(steps[j], partials) # {}
             /\ ExpandedWidth(steps[j], partials) = 2
        /\ \E j \in 1..Len(steps) :
             steps[j].kind = "partial" /\ KnownAs(steps[j], partials) = {}
        /\ Len(exporter.expandedSteps) = 2

(***************************************************************************)
(* Claims about the chunks on the output                                   *)
(***************************************************************************)

\* C26: when an attempt resolves, rejects or times out, all its chunks have
\* been written (no sendChunks loop of the attempt is still running), and the
\* chunks of an attempt follow one another on the output: chunk k + 1 is
\* written right after chunk k of the same attempt, and an attempt's first
\* chunk only after the last chunk of the attempt before it
C26_ChunksWholeAndApart ==
  [][/\ \A c \in Callers :
          (calls[c].pc = "awaiting" /\ calls'[c].pc # "awaiting")
          => ~\E w \in writers : w.call = c /\ w.att = calls[c].attempt
     /\ wire' # wire =>
          IF wire'.last.chunk = 0
          THEN wire.last = NoChunk \/ Complete(wire.last.chunk)
          ELSE /\ wire.last.call = wire'.last.call
               /\ wire.last.att = wire'.last.att
               /\ wire.last.chunk + 1 = wire'.last.chunk]_vars

(***************************************************************************)
(* Claims about the bridges of concurrent operations                       *)
(***************************************************************************)

\* C27: at most one bridge has its listener on the pedal's input at a time,
\* and the request of an operation is only ever settled by a message that
\* answers a request of that operation
C27_OneListenerOwnAnswers ==
  /\ Cardinality({op \in Operations : bridges[op].listener}) <= 1
  /\ \A op \in Operations :
       bridges[op].settledBy # None => bridges[op].settledBy.call = op

(***************************************************************************)
(* Claims about termination                                                *)
(***************************************************************************)

\* C28: provided the timers fire, every call of sendJsonCommand that has
\* started an attempt or waits for its retry delay ends: it resolves or
\* rejects, whatever the pedal sends and whatever the other caller and
\* disconnect() do
C28_EveryCallSettles ==
  \A c \in Callers :
    (calls[c].pc \in {"awaiting", "delay"}) ~> (calls[c].pc \in {"resolved", "rejected"})

\* since every awaited call of sendJsonCommand settles, an import, whose loops
\* are bounded, comes to its end
C28_EveryImportEnds == <>(scan.stage \in {"done", "saved"})

\* a call of several attempts has ended on the timeout of its last attempt
C28_Witness ==
  \E c \in Callers :
    /\ calls[c].pc = "rejected"
    /\ calls[c].attempts >= 2
    /\ calls[c].error = ErrTimeout

(***************************************************************************)
(* Claims about the end of an operation                                    *)
(***************************************************************************)

\* C29: when an import that opened a bridge has come to its end, the bridge
\* is disconnected: its listener is removed, its ports are cleared and it has
\* no pending request
C29_ImportLeavesBridgeClosed ==
  (scan.stage \in {"done", "saved"}) =>
    /\ ~listener
    /\ ~output /\ ~input
    /\ pending = None

(***************************************************************************)
(* Claims about the steps a macro export transmits                         *)
(***************************************************************************)

\* C30: a completed export of a macro has sent, for every control change or
\* program change at position k of the expanded list, exactly one
\* set_macro_cmd that carries it, and that command names slot k, however
\* many steps the expanded list has
C30_EveryStepTransmittedOnce ==
  MacroExportDone =>
    \A k \in 1..Len(exporter.expandedSteps) :
      exporter.expandedSteps[k].kind \in {"cc", "pc"} =>
        /\ Cardinality({j \in 1..Len(StepWrites) : StepWrites[j].slot = k - 1}) = 1
        /\ \A j \in 1..Len(StepWrites) :
             StepWrites[j].slot = k - 1 => Carries(StepWrites[j], exporter.expandedSteps[k])

====
